---- MODULE Spec2Model ----
(***************************************************************************)
(* A model of the shared page pool of the hikey-linux-dev tree:            *)
(*   - the drm_page_pool bucket and its registry / shrinker, in both       *)
(*     variants found in the tree ("old": drm_page_pool_create/fetch/      *)
(*     destroy with total_pages, "new": drm_page_pool_init/remove/fini     *)
(*     with nr_managed_pages and page_pool_size),                          *)
(*   - the TTM pool facade (ttm_pool_alloc / ttm_pool_free) on top of it,  *)
(*   - the dynamic page pool with its deferred-free worker.                *)
(* Critical sections under a spinlock are single steps; the registry       *)
(* mutex is a variable because it is held across several steps.            *)
(***************************************************************************)
EXTENDS Integers, Sequences, FiniteSets, TLC

\* ---------------------------------------------------------------- bounds
MAX_ORDER   == 4      \* orders 0 .. MAX_ORDER-1 (the kernel's value is 11)
MaxRuns     == 2      \* page runs that exist
MaxPoolSize == 1      \* page_pool_size is drawn from 0 .. MaxPoolSize
MaxScan     == 2      \* nr_to_scan is drawn from 0 .. MaxScan
MaxCalls    == 4      \* the count of shrink calls of one operation saturates
MaxPages    == 2      \* tt->num_pages is drawn from 1 .. MaxPages
MaxHist     == 3      \* populate and drain calls followed by the record
MaxAsk      == 17     \* num_pages of the loop taken alone: 1 .. MaxAsk
MaxDPages   == 3      \* pages the dynamic pool allocates
BatchSize   == 2      \* ARRAY_SIZE(pages) of the cleaner (32 in the source)

\* The caller of the sequential specifications, whose calls are recorded in
\* `last`, and the two contexts T1 and T2 of the concurrent one.
Caller     == "caller"
T1         == "t1"
T2         == "t2"
Threads    == {T1, T2}
NoThread   == "none"      \* holder of an unlocked mutex
AllThreads == {Caller} \cup Threads
Orders   == 0 .. (MAX_ORDER - 1)
Runs     == 1 .. MaxRuns
Variants == {"old", "new"}
Cachings == {"cached", "wc", "uc"}   \* enum ttm_caching

\* The bucket arrays of the TTM facade: the four global ones and the three
\* per-pool ones (one per caching class) of a pool that uses dma_alloc.
GlobalArrays == {"wc", "uc", "wc32", "uc32"}
OwnArrays    == {"dma_cached", "dma_wc", "dma_uc"}
Arrays       == GlobalArrays \cup OwnArrays
Buckets      == Arrays \X Orders

NoPool  == <<"none", 0>>      \* a NULL struct drm_page_pool *
Phantom == <<"phantom", 0>>   \* container_of() of the empty registry head
NoPage  == 0                  \* a NULL struct page *
Garbage == -1                 \* a struct page * computed from garbage

RECURSIVE Pow2(_)
Pow2(n) == IF n = 0 THEN 1 ELSE 2 * Pow2(n - 1)

VARIABLES
    variant,         \* which of the two drm_page_pool implementations is built
    page_pool_size,  \* module parameter: max size of the pool, 0 = no limit
    registry,        \* shrinker_list / pool_list: sequence of buckets
    live,            \* buckets initialised and not yet in teardown
    order,           \* pool->order of each bucket
    items,           \* pool->pages / pool->items: sequence of runs, head first
    count,           \* pool->page_count / pool->count
    total,           \* nr_managed_pages / total_pages
    regLock,         \* holder of shrinker_lock / pool_list_lock, or NoThread
    owner,           \* lifecycle state of each run
    th,              \* per thread: program counter and locals
    x86,             \* CONFIG_X86
    use_dma_alloc,   \* pool->use_dma_alloc of the one ttm_pool
    use_dma32,       \* pool->use_dma32
    rorder,          \* the order recorded with each run (page->private)
    tt,              \* the one ttm_tt: populated, num_pages, caching, pages
    snap,            \* "calls": the counters and the caching class when
                     \* ttm_pool_alloc began
    fresh,           \* "calls": runs that call got from the allocator
    probe,           \* what is recorded: "off", "calls", "rr" or "warm" of
                     \* Caller, "attrs" for the page attributes, "locks"
                     \* for nothing but the locks held, "batch" for the
                     \* runs a pass of the dynamic pool's cleaner removes,
                     \* "signal" for calls made with a fatal signal
                     \* pending, "dma" for the DMA mappings of a ttm_tt
                     \* that has a dma_address array
    last,            \* "calls": the call that returned last and its result
    rrK,             \* "rr": consecutive shrink calls made (up to MaxCalls)
    rrLost,          \* "rr": runs each bucket lost to these calls
    ub,              \* an undefined read has yielded garbage: from then on
                     \* the behaviour is followed without a second one
    rattr,           \* CONFIG_X86: page attribute of each run: "cached"
                     \* (write back), "wc", "uc"; "high" for a highmem run,
                     \* which has no kernel mapping to set one on
    free_relocks,    \* the free callback installed in the buckets takes the
                     \* registry mutex while it releases a run
    dcount,          \* dynamic pool: pool->count[] per page type
    ditems,          \* dynamic pool: pool->items[] per page type
    dmutex,          \* dynamic pool: holder of pool->mutex, or NoThread
    dst,             \* where each page of DPages is
    dzero,           \* whether the page has been zeroed since it was dirtied
    dth,             \* dynamic pool: program counter and locals per thread
    dlist,           \* dynamic pool: holder of pool_list_lock, whether the
                     \* pool is on pool_list, whether it has been kfree'd,
                     \* and whether a thread has used it since
    dma_mapped,      \* "dma": runs with a mapping of dma_map_page that no
                     \* dma_unmap_page has ended
    loop,            \* the for loop of ttm_pool_alloc taken alone: order,
                     \* num_pages and the orders asked for so far
    hist,            \* "warm": the populate and drain calls that returned
    stage            \* the facade's life: "up" from ttm_pool_mgr_init and
                     \* ttm_pool_init on, "pool_fini" within ttm_pool_fini,
                     \* "pool_down" after it, "mgr_fini" within
                     \* ttm_pool_mgr_fini, "down" after it

vars == <<variant, page_pool_size, registry, live, order, items, count,
          total, regLock, owner, th, x86, use_dma_alloc, use_dma32, rorder,
          tt, snap, fresh, probe, last, rrK, rrLost, ub, rattr,
          free_relocks, dcount, ditems, dmutex, dst, dzero, dth, dlist,
          stage, hist, dma_mapped, loop>>

\* What is fixed when the module is built and loaded
conf == <<variant, page_pool_size, probe, x86, use_dma_alloc, use_dma32,
          free_relocks>>

\* The state of the dynamic page pool
dyn == <<dcount, ditems, dmutex, dst, dzero, dth, dlist>>

\* The state of the drm_page_pool and of the TTM facade
core == <<variant, page_pool_size, registry, live, order, items, count,
          total, regLock, owner, th, x86, use_dma_alloc, use_dma32, rorder,
          tt, snap, fresh, probe, last, rrK, rrLost, rattr, free_relocks,
          stage, hist, dma_mapped>>

\* The state of the TTM facade, untouched by the bucket-level calls
ttm == <<rorder, tt, snap, fresh, rattr, stage, hist, dma_mapped>>

IdleTh == [pc |-> "idle", pool |-> NoPool, page |-> NoPage,
           spool |-> NoPool, spage |-> NoPage, freed |-> 0,
           nfreed |-> 0, to_scan |-> 0, nr |-> 0, calls |-> 0,
           len0 |-> 0, pre0 |-> 0,
           order |-> 0, num_pages |-> 0, cmark |-> 0, hits |-> 0,
           acalls |-> 0, afail |-> 0, plock |-> NoPool,
           addret |-> "idle", shrinkret |-> "idle"]

\* No populate in progress or completed
NoSnap == [count |-> [b \in Buckets |-> 0], total |-> 0, caching |-> "cached"]

\* An unpopulated ttm_tt
NoLoop == [pc |-> "idle", nr |-> 0, num_pages |-> 0, order |-> 0, res |-> 0,
           tries |-> <<>>]

NoTT == [populated |-> FALSE, num_pages |-> 0, caching |-> "cached",
         pages |-> <<>>]

\* The record of a returned call: its arguments and result, the number of
\* shrink calls it made, the length of its bucket (remove) or the global
\* counter (add, scan, shrink) when it was entered, what its last shrink call
\* freed, and for a remove the run that the call just before it added to the
\* same bucket without trimming (NoPage if there is none).
NoCall == [op |-> "none", pool |-> NoPool, page |-> NoPage, res |-> 0,
           nr |-> 0, calls |-> 0, len0 |-> 0, pre0 |-> 0, lastfreed |-> 0,
           hot |-> NoPage, hits |-> 0, acalls |-> 0, afail |-> 0]

\* ------------------------------------------------------------- list helpers
\* list_del of an entry of a sequence without duplicates
ListDel(s, x) == SelectSeq(s, LAMBDA y : y # x)
\* Variant of ListMoveTail that leaves the entry where it is
ListStay(s, x) == s
\* list_move_tail
ListMoveTail(s, x) == Append(ListDel(s, x), x)
InSeq(s, x) == \E i \in 1 .. Len(s) : s[i] = x

\* The pages accounted for one run of a bucket
RunPages(b) == Pow2(order[b])

RECURSIVE SumOver(_, _)
SumOver(S, f) ==
    IF S = {} THEN 0
    ELSE LET x == CHOOSE y \in S : TRUE IN f[x] + SumOver(S \ {x}, f)

\* Base pages linked in the buckets
PooledPages == SumOver(Buckets, [b \in Buckets |-> Len(items[b]) * RunPages(b)])

\* Variant of CountStep that counts a run as 1 in both variants
CountStepOne(b) == 1

\* What the stored count grows by on an add: the old variant counts runs
\* (pool->count++), the new one base pages (pool->page_count += 1 << order).
CountStep(b) == IF variant = "old" THEN 1 ELSE RunPages(b)

\* =============================================== the dynamic page pool
\* One pool, as dynamic_page_pool_create leaves it, with its cleaner thread;
\* a user that allocates from it and frees into it; a context that runs the
\* shrinker on it.
Worker   == "worker"
User     == "user"
Kswapd   == "kswapd"
DThreads == {Worker, User, Kswapd}
Cleaners == {Worker, User}

\* The pages dynamic_page_pool_alloc_pages can return, and a page the user
\* has from elsewhere, of the next order
DPages  == 1 .. MaxDPages
Foreign == MaxDPages + 1
pool_order == 0                  \* pool->order, the argument of create
\* Variant of compound_order that takes every page for one of the pool's order
OrderOfPool(p) == pool_order

compound_order(p) == IF p = Foreign THEN pool_order + 1 ELSE pool_order
PageHighMem(p) == p % 2 = 0

POOL_LOWPAGE      == "low"       \* clean lowmem pages
POOL_HIGHPAGE     == "high"      \* clean highmem pages
POOL_LOWDEFERRED  == "lowdef"    \* dirty lowmem pages
POOL_HIGHDEFERRED == "highdef"   \* dirty highmem pages
PoolTypes == {POOL_LOWPAGE, POOL_HIGHPAGE, POOL_LOWDEFERRED, POOL_HIGHDEFERRED}

\* int passes = 4 of dynamic_page_pool_clean
Passes == 4

DIdle == [pc |-> "idle", pages |-> <<>>, p |-> 0, passes |-> 0,
          index |-> "none", after |-> "idle", ret |-> "idle",
          page |-> NoPage, freed |-> 0, nr |-> 0, high |-> FALSE,
          warned |-> FALSE, addr |-> "unset", back |-> "idle",
          taken |-> 0]

\* After dynamic_page_pool_create: empty lists, the cleaner waits; the pages
\* are with the page allocator, the foreign one with the user.
DynInitWith(st) ==
    /\ dcount = [i \in PoolTypes |-> 0]
    /\ ditems = [i \in PoolTypes |-> <<>>]
    /\ dmutex = NoThread
    /\ dst = [p \in DPages |-> st]
    /\ dzero = [p \in DPages |-> FALSE]
    /\ dth = [t \in DThreads |-> IF t = Worker THEN [DIdle EXCEPT !.pc = "wait"]
                                 ELSE DIdle]
    /\ dlist = [lock |-> NoThread, linked |-> TRUE, gone |-> FALSE,
                uaf |-> FALSE]

DynInit == DynInitWith("free")

\* ------------------------------------------------------------------ Init
\* State after module init: empty registry, counters zero, every run is with
\* its caller.
\* The callback is left open here: it is an argument of drm_page_pool_init
\* / drm_page_pool_create.
InitBuckets(p) ==
    /\ probe = p
    /\ x86 = FALSE
    /\ use_dma_alloc = FALSE
    /\ use_dma32 = FALSE
    /\ rorder = [r \in Runs |-> 0]
    /\ rattr = [r \in Runs |-> "cached"]
    /\ tt = NoTT
    /\ snap = NoSnap
    /\ fresh = {}
    /\ variant \in Variants
    /\ page_pool_size \in 0 .. MaxPoolSize
    /\ registry = <<>>
    /\ live = {}
    /\ order = [b \in Buckets |-> 0]
    /\ items = [b \in Buckets |-> <<>>]
    /\ count = [b \in Buckets |-> 0]
    /\ total = 0
    /\ regLock = NoThread
    /\ owner = [r \in Runs |-> "caller"]
    /\ th = [t \in AllThreads |-> IdleTh]
    /\ last = NoCall
    /\ rrK = 0
    /\ rrLost = [b \in Buckets |-> 0]
    /\ ub = FALSE
    /\ stage = "up"
    /\ hist = <<>>
    /\ dma_mapped = {}
    /\ loop = NoLoop

InitCore(p) == InitBuckets(p) /\ DynInit

\* The callbacks of this tree (ttm_pool_free_callback, ttm_pool_free_page)
\* take no lock of the page pool.
InitWith(p) == InitCore(p) /\ free_relocks = FALSE

Init == InitWith("off")

\* The same with either kind of callback installed
InitLock == InitCore("off") /\ free_relocks \in BOOLEAN
InitSeq == InitWith("calls")
InitRR == InitWith("rr")

\* ------------------------------------------------------- bucket primitives
\* pool->lock is a spinlock: th[t].plock is the bucket whose lock thread t
\* holds.  A section under it (no call, no sleep inside) is one step, which
\* needs the lock free and ends with the spin_unlock.
SpinFree(b) == \A t \in AllThreads : th[t].plock # b

\* Variant of MutexFree: a mutex_lock that does not wait
MutexNotAwaited == TRUE

\* mutex_lock(&shrinker_lock) / mutex_lock(&pool_list_lock) returns once no
\* thread holds the registry mutex
MutexFree == regLock = NoThread

\* Variant of SpinUnlock that returns with the lock held
SpinUnlockSkipped(b) == b

\* spin_unlock(&pool->lock): what the thread holds after it
SpinUnlock(b) == NoPool

\* The run a locked remove unlinks: the new variant tests the list
\* (list_first_entry_or_null), the old one tests pool->count and then takes
\* list_first_entry, which on an empty list is a pointer computed from the
\* list head.
\* Variant of FirstPage that finds every bucket empty
FirstPageNone(b) == NoPage

FirstPage(b) ==
    IF variant = "new"
    THEN IF items[b] # <<>> THEN Head(items[b]) ELSE NoPage
    ELSE IF count[b] = 0 THEN NoPage
         ELSE IF items[b] # <<>> THEN Head(items[b]) ELSE Garbage

\* Variant of TakeFirst that updates the counters and leaves the run linked
TakeFirstKeepsRun(b) ==
    LET p == FirstPage(b) IN
    IF p = NoPage
    THEN UNCHANGED <<items, count, total>>
    ELSE /\ items' = items
         /\ count' = [count EXCEPT ![b] = @ - CountStep(b)]
         /\ total' = total - RunPages(b)

\* drm_page_pool_remove: the section under pool->lock, counters included
TakeFirst(b) ==
    LET p == FirstPage(b) IN
    IF p = NoPage
    THEN UNCHANGED <<items, count, total>>
    ELSE /\ items' = [items EXCEPT ![b] = IF @ # <<>> THEN Tail(@) ELSE @]
         /\ count' = [count EXCEPT ![b] = @ - CountStep(b)]
         /\ total' = total - RunPages(b)

\* Variant of Linked that links at the tail in both variants
LinkedAtTail(s, r) == Append(s, r)

\* list_add (new variant) or list_add_tail (old variant) of a run
Linked(s, r) == IF variant = "old" THEN Append(s, r) ELSE <<r>> \o s

\* pool->free / drm_page_pool_free_pages: the run goes back to the allocator
Released(p) == IF p \in Runs THEN [owner EXCEPT ![p] = "freed"] ELSE owner

\* ... with the attribute the page allocator hands its pages out with:
\* No code modelled reads a page attribute: the attributes are followed
\* with probe = "attrs" only, and stay as they began otherwise
Kept(attr) == IF probe = "attrs" THEN attr ELSE rattr

\* set_pages_wb in ttm_pool_free_page; a freed highmem run is forgotten
WriteBack(p) ==
    Kept(IF p \in Runs THEN [rattr EXCEPT ![p] = "cached"] ELSE rattr)

Handed(p, to) == IF p \in Runs THEN [owner EXCEPT ![p] = to] ELSE owner

\* Values recorded for the observed caller only
Recorded(t) == probe \in {"calls", "warm"} /\ t = Caller
\* ... and what only the record of the calls made so far needs
Warm(t, v) == IF probe = "warm" /\ t = Caller THEN v ELSE 0
Obs(t, v) == IF Recorded(t) THEN v ELSE 0
RRCounted(t) == probe = "rr" /\ t = Caller

\* Any operation on a bucket other than a shrink call ends the current
\* sequence of consecutive shrink calls.
RRReset == /\ rrK' = 0
           /\ rrLost' = [b \in Buckets |-> 0]

\* A top-level call of thread t returns
Ret(t, call) ==
    /\ th' = [th EXCEPT ![t] = IdleTh]
    /\ last' = IF Recorded(t) THEN call ELSE last

\* ------------------------------------------------------- drm_page_pool_add
\* drm_page_pool_add returns to its caller: a top-level caller, or the loop
\* of ttm_pool_free.
AddReturn(t, ret, b, r, calls) ==
    IF ret = "idle"
    THEN Ret(t, [NoCall EXCEPT !.op = "add", !.pool = b, !.page = r,
                               !.calls = calls, !.pre0 = th[t].pre0])
    ELSE /\ th' = [th EXCEPT ![t].pc = ret, ![t].pool = NoPool,
                             ![t].page = NoPage, ![t].calls = calls]
         /\ UNCHANGED last

\* The section under pool->lock.  In the old variant the global counter is
\* updated inside it and the function returns; in the new variant the
\* counter is updated after the unlock and the trim loop follows.
AddLink(t, b, r, ret) ==
    /\ SpinFree(b)
    /\ items' = [items EXCEPT ![b] = Linked(@, r)]
    /\ count' = [count EXCEPT ![b] = @ + CountStep(b)]
    /\ owner' = Handed(r, "pool")
    /\ IF variant = "old"
       THEN /\ total' = total + RunPages(b)
            /\ IF ret = "idle"
               THEN Ret(t, [NoCall EXCEPT !.op = "add", !.pool = b, !.page = r,
                                          !.pre0 = Obs(t, total)])
               ELSE AddReturn(t, ret, b, r, th[t].calls)
       ELSE /\ total' = total
            /\ th' = [th EXCEPT ![t].pc = "add_account", ![t].pool = b,
                                ![t].page = r, ![t].addret = ret,
                                ![t].plock = SpinUnlock(b),
                                ![t].pre0 = IF ret = "idle" THEN Obs(t, total)
                                            ELSE @]
            /\ UNCHANGED last
    /\ IF RRCounted(t) THEN RRReset ELSE UNCHANGED <<rrK, rrLost>>

\* Runs with the caller are interchangeable: the caller adds the one with
\* the smallest number.
CallerRuns == {r \in Runs : owner[r] = "caller"}
NextRun == CHOOSE r \in CallerRuns : \A q \in CallerRuns : r <= q

drm_page_pool_add(t, b, r) ==
    /\ th[t].pc = "idle"
    /\ b \in live
    /\ CallerRuns # {}
    /\ r = NextRun
    /\ AddLink(t, b, r, "idle")
    /\ UNCHANGED <<conf, loop, dyn, ttm, registry, live, order, regLock, ub>>

\* atomic_long_add(1 << pool->order, &nr_managed_pages)
AddAccount(t) ==
    /\ th[t].pc = "add_account"
    /\ total' = total + RunPages(th[t].pool)
    /\ th' = [th EXCEPT ![t].pc = "add_trim"]
    /\ UNCHANGED <<conf, loop, dyn, ttm, registry, live, order, items,
                   count, regLock, owner, last, rrK, rrLost, ub>>

\* Variant of TrimNeeded without the test of page_pool_size for 0
TrimAboveLimit == total > page_pool_size

\* while (page_pool_size && drm_page_pool_get_total() > page_pool_size)
\*         drm_page_pool_shrink();
\* The comparison is one of unsigned longs: a negative counter reads as a
\* value above every limit.
TrimNeeded == page_pool_size # 0 /\ (total < 0 \/ total > page_pool_size)

AddTrim(t) ==
    /\ th[t].pc = "add_trim"
    /\ IF TrimNeeded
       THEN /\ th' = [th EXCEPT ![t].pc = "shrink", ![t].shrinkret = "add_trim"]
            /\ UNCHANGED last
       ELSE AddReturn(t, th[t].addret, th[t].pool, th[t].page, th[t].calls)
    /\ UNCHANGED <<conf, loop, dyn, ttm, registry, live, order, items,
                   count, total, regLock, owner, rrK, rrLost, ub>>

\* ---------------------------------------- drm_page_pool_remove / _fetch
\* A bucket in teardown is one whose fini / destroy has unlinked it from the
\* registry and has not returned yet.
InTeardown(b) == \E t \in AllThreads : th[t].pc \in {"fini_drain", "fini_free"}
                                    /\ th[t].pool = b

\* The caller holds a bucket that is initialised; the remove may run while
\* another context tears the bucket down.
drm_page_pool_remove(t, b) ==
    /\ th[t].pc = "idle"
    /\ b \in live \/ InTeardown(b)
    /\ SpinFree(b)
    /\ TakeFirst(b)
    /\ owner' = Handed(FirstPage(b), "caller")
    /\ Ret(t, [NoCall EXCEPT !.op = "remove", !.pool = b, !.page = FirstPage(b),
                              !.len0 = Obs(t, Len(items[b])),
                              !.hot = IF last.op = "add" /\ last.pool = b
                                         /\ last.calls = 0
                                      THEN last.page ELSE NoPage])
    /\ IF RRCounted(t) THEN RRReset ELSE UNCHANGED <<rrK, rrLost>>
    /\ UNCHANGED <<conf, loop, dyn, ttm, registry, live, order, regLock, ub>>

\* drm_page_pool_fetch(pool): a NULL pool handle is warned about and
\* answered with NULL before the lock is taken; otherwise the first run is
\* removed under the lock
drm_page_pool_fetch(t, b) ==
    IF b = NoPool
    THEN /\ th[t].pc = "idle"
         /\ Ret(t, [NoCall EXCEPT !.op = "fetch"])
         /\ UNCHANGED <<conf, loop, dyn, ttm, registry, live, order, regLock,
                        ub, items, count, total, owner, rrK, rrLost>>
    ELSE drm_page_pool_remove(t, b)

\* The shrink calls made by the operation in progress are counted for the
\* observed caller only, up to MaxCalls.
Counted(t, n) == IF Recorded(t) /\ n < MaxCalls THEN n + 1 ELSE n

\* ------------------------- drm_page_pool_shrink / drm_page_pool_shrink_one
\* mutex_lock, list_first_entry of the registry and the remove from the
\* bucket found.  list_first_entry of an empty list is not a bucket: it is
\* the list head taken for one, and what the remove reads through it is
\* undefined.  It may look empty, or yield a pointer and an order made of
\* whatever is stored there.
ShrinkBegin(t) ==
    /\ th[t].pc = "shrink"
    /\ MutexFree
    /\ regLock' = t
    /\ IF registry # <<>>
       THEN LET b == Head(registry)
                p == FirstPage(b) IN
            /\ SpinFree(b)
            /\ TakeFirst(b)
            /\ owner' = Handed(p, "hand")
            /\ th' = [th EXCEPT ![t].pc = "shrink_free", ![t].spool = b,
                                ![t].spage = p,
                                ![t].plock = SpinUnlock(b),
                                ![t].freed = IF p = NoPage THEN 0 ELSE RunPages(b)]
            /\ UNCHANGED ub
       ELSE \/ /\ th' = [th EXCEPT ![t].pc = "shrink_free", ![t].spool = Phantom,
                                   ![t].spage = NoPage, ![t].freed = 0]
               /\ UNCHANGED <<items, count, total, owner, ub>>
            \/ /\ ~ub
               /\ \E o \in Orders :
                    /\ total' = total - Pow2(o)
                    /\ th' = [th EXCEPT ![t].pc = "shrink_free",
                                        ![t].spool = Phantom,
                                        ![t].spage = Garbage,
                                        ![t].freed = Pow2(o)]
               /\ ub' = TRUE
               /\ UNCHANGED <<items, count, owner>>
    /\ UNCHANGED <<conf, loop, dyn, ttm, registry, live, order, last,
                   rrK, rrLost>>

\* pool->free(pool, p) can run to its end: a callback that takes the
\* registry mutex needs it to be free.
FreeCanRun(p) == p = NoPage \/ ~free_relocks \/ regLock = NoThread

\* The free callback on the run removed, list_move_tail, mutex_unlock, and
\* the return to the caller of the shrink.
ShrinkEnd(t) ==
    /\ th[t].pc = "shrink_free"
    /\ FreeCanRun(th[t].spage)
    /\ owner' = Released(th[t].spage)
    /\ registry' = IF th[t].spool = Phantom THEN registry
                   ELSE ListMoveTail(registry, th[t].spool)
    /\ regLock' = NoThread
    /\ IF th[t].shrinkret = "idle"
       THEN Ret(t, [NoCall EXCEPT !.op = "shrink", !.pool = th[t].spool,
                                  !.page = th[t].spage, !.res = th[t].freed,
                                  !.calls = 1, !.pre0 = th[t].pre0,
                                  !.lastfreed = th[t].freed])
       ELSE /\ th' = [th EXCEPT ![t].pc = th[t].shrinkret,
                                ![t].calls = Counted(t, @),
                                ![t].spool = NoPool, ![t].spage = NoPage]
            /\ UNCHANGED last
    /\ IF RRCounted(t) /\ rrK < MaxCalls
       THEN /\ rrK' = rrK + 1
            /\ rrLost' = IF th[t].spage \in Runs
                          THEN [rrLost EXCEPT ![th[t].spool] = @ + 1]
                          ELSE rrLost
       ELSE UNCHANGED <<rrK, rrLost>>
    /\ rattr' = WriteBack(th[t].spage)
    /\ UNCHANGED <<conf, loop, dyn, dma_mapped, stage, hist, rorder, tt, snap, fresh, live, order, items, count,
                   total, ub>>

\* Direct call of the shrink: only the new variant exports it, for
\* ttm_pool_debugfs_shrink_show.
CallShrink(t) ==
    /\ th[t].pc = "idle"
    /\ variant = "new"
    /\ th' = [th EXCEPT ![t].pc = "shrink", ![t].shrinkret = "idle",
                        ![t].pre0 = Obs(t, total)]
    /\ UNCHANGED <<conf, loop, dyn, ttm, registry, live, order, items,
                   count, total, regLock, owner, last, rrK, rrLost, ub>>

\* -------------- drm_page_pool_shrinker_scan / drm_page_pool_shrink_scan
\* Entry of the scan callback with sc->nr_to_scan = nr.  The old variant
\* returns 0 at once for nr = 0; both then enter a do-while whose body is a
\* call of the shrink.
ScanBegin(t, nr) ==
    /\ th[t].pc = "idle"
    /\ IF variant = "old" /\ nr = 0
       THEN Ret(t, [NoCall EXCEPT !.op = "scan", !.nr = nr,
                                  !.pre0 = Obs(t, total),
                                  !.len0 = Obs(t, PooledPages)])
       ELSE /\ th' = [th EXCEPT ![t].pc = "shrink", ![t].shrinkret = "scan_check",
                                ![t].nr = Obs(t, nr),
                                ![t].to_scan = IF variant = "old" THEN nr ELSE 0,
                                ![t].pre0 = Obs(t, total),
                                ![t].len0 = Obs(t, PooledPages)]
            /\ UNCHANGED last
    /\ UNCHANGED <<conf, loop, dyn, ttm, registry, live, order, items,
                   count, total, regLock, owner, rrK, rrLost, ub>>

\* The loop condition after a call of the shrink returned th[t].freed:
\*   new:  num_freed += ...;  while (!num_freed && nr_managed_pages)
\*   old:  to_scan -= nr_freed; nr_total += nr_freed;
\*         while (to_scan >= 0 && total_pages)
ScanAgain(nf, ts) ==
    IF variant = "new" THEN nf = 0 /\ total # 0
                       ELSE ts >= 0 /\ total # 0

ScanCheck(t) ==
    /\ th[t].pc = "scan_check"
    /\ LET nf == th[t].nfreed + th[t].freed
           ts == th[t].to_scan - th[t].freed IN
       IF ScanAgain(nf, ts)
       THEN /\ th' = [th EXCEPT ![t].pc = "shrink", ![t].nfreed = nf,
                                ![t].to_scan = IF variant = "old" THEN ts ELSE 0,
                                ![t].freed = 0]
            /\ UNCHANGED last
       ELSE Ret(t, [NoCall EXCEPT !.op = "scan", !.nr = th[t].nr, !.res = nf,
                                  !.calls = th[t].calls, !.pre0 = th[t].pre0,
                                  !.len0 = th[t].len0,
                                  !.lastfreed = th[t].freed])
    /\ UNCHANGED <<conf, loop, dyn, ttm, registry, live, order, items,
                   count, total, regLock, owner, rrK, rrLost, ub>>

\* ------------------------------ drm_page_pool_init / drm_page_pool_create
\* The bucket <<a, j>> is initialised with order j, as every caller in the
\* tree does, and joins the registry: at the tail in the new variant
\* (list_add_tail), at the head in the old one (list_add).
RegJoin(reg, b) == IF variant = "new" THEN Append(reg, b) ELSE <<b>> \o reg

drm_page_pool_init(t, b) ==
    /\ th[t].pc = "idle"
    /\ b \notin live
    /\ ~InTeardown(b)
    /\ MutexFree
    /\ order' = [order EXCEPT ![b] = b[2]]
    /\ items' = [items EXCEPT ![b] = <<>>]
    /\ count' = [count EXCEPT ![b] = 0]
    /\ registry' = RegJoin(registry, b)
    /\ live' = live \cup {b}
    /\ Ret(t, [NoCall EXCEPT !.op = "init", !.pool = b])
    /\ IF RRCounted(t) THEN RRReset ELSE UNCHANGED <<rrK, rrLost>>
    /\ UNCHANGED <<conf, loop, dyn, ttm, total, regLock, owner, ub>>

\* ------------------------------ drm_page_pool_fini / drm_page_pool_destroy
\* list_del under the registry mutex
\* Variant of ListDelBucket that leaves the bucket linked
ListDelSkipped(t, b) ==
    /\ th[t].pc = "idle"
    /\ b \in live
    /\ MutexFree
    /\ live' = live \ {b}
    /\ th' = [th EXCEPT ![t].pc = "fini_drain", ![t].pool = b]
    /\ IF RRCounted(t) THEN RRReset ELSE UNCHANGED <<rrK, rrLost>>
    /\ UNCHANGED <<conf, loop, dyn, dma_mapped, hist, rorder, tt, snap, fresh, rattr, order, items,
                   count, total, regLock, owner, last, ub, registry>>

\* drm_page_pool_fini / _destroy up to the list_del under the registry mutex
ListDelBucket(t, b) ==
    /\ th[t].pc = "idle"
    /\ b \in live
    /\ MutexFree
    /\ registry' = ListDel(registry, b)
    /\ live' = live \ {b}
    /\ th' = [th EXCEPT ![t].pc = "fini_drain", ![t].pool = b]
    /\ IF RRCounted(t) THEN RRReset ELSE UNCHANGED <<rrK, rrLost>>
    /\ UNCHANGED <<conf, loop, dyn, dma_mapped, hist, rorder, tt, snap, fresh, rattr, order, items,
                   count, total, regLock, owner, last, ub>>

FiniUnlink(t, b) == ListDelBucket(t, b) /\ UNCHANGED stage

\* while ((p = drm_page_pool_remove(pool))) ...: one remove under pool->lock
FiniDrain(t) ==
    /\ th[t].pc = "fini_drain"
    /\ LET b == th[t].pool
           p == FirstPage(b) IN
       /\ SpinFree(b)
       /\ TakeFirst(b)
       /\ owner' = Handed(p, "hand")
       /\ IF p = NoPage
          THEN Ret(t, [NoCall EXCEPT !.op = "fini", !.pool = b])
          ELSE /\ th' = [th EXCEPT ![t].pc = "fini_free", ![t].page = p,
                                   ![t].plock = SpinUnlock(b)]
               /\ UNCHANGED last
    /\ UNCHANGED <<conf, loop, dyn, ttm, registry, live, order, regLock,
                   rrK, rrLost, ub>>

\* ... pool->free(pool, p), with pool->lock released
FiniFree(t) ==
    /\ th[t].pc = "fini_free"
    /\ FreeCanRun(th[t].page)
    /\ owner' = Released(th[t].page)
    /\ rattr' = WriteBack(th[t].page)
    /\ th' = [th EXCEPT ![t].pc = "fini_drain", ![t].page = NoPage]
    /\ UNCHANGED <<conf, loop, dyn, dma_mapped, stage, hist, rorder, tt, snap, fresh, registry, live, order, items,
                   count, total, regLock, last, rrK, rrLost, ub>>

\* ------------------------------------------ ttm_pool_debugfs_globals_show
\* The dump of the new variant, which takes the registry mutex with
\* dma_page_pool_lock_shrinker (the older ttm_pool_debugfs takes a mutex of
\* its own, which no other code takes)
DumpBegin(t) ==
    /\ th[t].pc = "idle"
    /\ variant = "new"
    /\ MutexFree
    /\ regLock' = t
    /\ th' = [th EXCEPT ![t].pc = "dump"]
    /\ UNCHANGED <<conf, loop, dyn, ttm, registry, live, order, items,
                   count, total, owner, last, rrK, rrLost, ub>>

\* drm_page_pool_get_size of each bucket of the global arrays, a section
\* under pool->lock that writes nothing, then
\* dma_page_pool_unlock_shrinker
DumpEnd(t) ==
    /\ th[t].pc = "dump"
    /\ \A b \in Buckets : b[1] \in GlobalArrays => SpinFree(b)
    /\ regLock' = NoThread
    /\ th' = [th EXCEPT ![t] = IdleTh]
    /\ UNCHANGED <<conf, loop, dyn, ttm, registry, live, order, items,
                   count, total, owner, last, rrK, rrLost, ub>>

\* ================================================= the TTM pool facade
\* __fls: the index of the highest bit set
RECURSIVE Fls(_)
Fls(n) == IF n <= 1 THEN 0 ELSE 1 + Fls(n \div 2)

Min(a, b) == IF a <= b THEN a ELSE b

\* pool->caching[caching].orders
OwnArray(caching) ==
    CASE caching = "cached" -> "dma_cached"
      [] caching = "wc" -> "dma_wc"
      [] caching = "uc" -> "dma_uc"

\* The bucket to use for a caching class and an order, NoPool for NULL
ttm_pool_select_type(caching, o) ==
    IF use_dma_alloc THEN <<OwnArray(caching), o>>
    ELSE IF x86 /\ caching = "wc"
         THEN (IF use_dma32 THEN <<"wc32", o>> ELSE <<"wc", o>>)
    ELSE IF x86 /\ caching = "uc"
         THEN (IF use_dma32 THEN <<"uc32", o>> ELSE <<"uc", o>>)
    ELSE NoPool

\* Variant of ttm_pool_page_order that takes every run for a single page
PageOrderZero(p) == 0

\* The order recorded with the run when it was allocated
ttm_pool_page_order(p) == rorder[p]

\* Base pages of the runs of a page array
RECURSIVE PagesOf(_)
PagesOf(s) == IF s = <<>> THEN 0
              ELSE Pow2(ttm_pool_page_order(Head(s))) + PagesOf(Tail(s))

\* ttm_pool_type_init calls of ttm_pool_mgr_init, in order
GlobalOrder == <<"wc", "uc", "wc32", "uc32">>
ttm_pool_mgr_init ==
    [k \in 1 .. (Len(GlobalOrder) * MAX_ORDER) |->
        <<GlobalOrder[((k - 1) % Len(GlobalOrder)) + 1],
          (k - 1) \div Len(GlobalOrder)>>]

\* ... and of ttm_pool_init: the new variant creates the pool's own buckets
\* only with use_dma_alloc, the old one always
OwnOrder == <<"dma_uc", "dma_wc", "dma_cached">>
ttm_pool_init ==
    IF variant = "old" \/ use_dma_alloc
    THEN [k \in 1 .. (Len(OwnOrder) * MAX_ORDER) |->
             <<OwnOrder[((k - 1) \div MAX_ORDER) + 1], (k - 1) % MAX_ORDER>>]
    ELSE <<>>

RECURSIVE RegAfter(_, _)
RegAfter(reg, calls) ==
    IF calls = <<>> THEN reg
    ELSE RegAfter(RegJoin(reg, Head(calls)), Tail(calls))

\* State after ttm_pool_mgr_init and ttm_pool_init of one pool: the buckets
\* are registered and empty, every run is with the page allocator.
InitTtmWith(p) ==
    /\ probe = p
    /\ variant \in Variants
    /\ page_pool_size \in 0 .. MaxPoolSize
    /\ x86 \in BOOLEAN
    /\ use_dma_alloc \in BOOLEAN
    /\ use_dma32 \in BOOLEAN
    /\ registry = RegAfter(<<>>, ttm_pool_mgr_init \o ttm_pool_init)
    /\ live = {registry[k] : k \in 1 .. Len(registry)}
    /\ order = [b \in Buckets |-> b[2]]
    /\ items = [b \in Buckets |-> <<>>]
    /\ count = [b \in Buckets |-> 0]
    /\ total = 0
    /\ regLock = NoThread
    /\ owner = [r \in Runs |-> "freed"]
    /\ rorder = [r \in Runs |-> 0]
    /\ rattr = [r \in Runs |-> "cached"]
    /\ tt = NoTT
    /\ snap = NoSnap
    /\ fresh = {}
    /\ th = [t \in AllThreads |-> IdleTh]
    /\ last = NoCall
    /\ rrK = 0
    /\ rrLost = [b \in Buckets |-> 0]
    /\ ub = FALSE
    /\ DynInit
    /\ stage = "up"
    /\ hist = <<>>
    /\ dma_mapped = {}
    /\ loop = NoLoop
    /\ free_relocks = FALSE

InitTtm == InitTtmWith("calls")

\* ... with the page attributes followed instead of the calls, and the
\* largest limit, under which the buckets keep the most
InitPlace == InitTtmWith("attrs") /\ page_pool_size = MaxPoolSize

\* Runs the page allocator can hand out; it hands out the lowest
FreeRuns == {r \in Runs : owner[r] = "freed"}
FreshRun == CHOOSE r \in FreeRuns : \A q \in FreeRuns : r <= q

\* ----------------------------------------------------------- ttm_pool_alloc
\* The order of the for statement: its initialiser,
\*   order = min(MAX_ORDER - 1UL, __fls(num_pages))
OrderFirst(n) == Min(MAX_ORDER - 1, Fls(n))

\* Variant of OrderNext that starts again from the highest order
OrderNextFresh(o, n) == Min(MAX_ORDER - 1, Fls(n))

\* Variant of OrderNext that keeps the order
OrderNextKept(o, n) == o

\* ... its update, order = min_t(unsigned int, order, __fls(num_pages)),
\* after an iteration that left n > 0 pages to get
OrderNext(o, n) == Min(o, Fls(n))

\* Variant of OrderFallback that skips an order
OrderFallbackSkips(o, n) == Min(IF o > 1 THEN o - 2 ELSE 0, Fls(n))

\* ... and --order; continue; with the update that follows the continue
OrderFallback(o, n) == Min(o - 1, Fls(n))

\* The record of a call kept in hist
Summary(call, nr, caching, tot) ==
    [op |-> call.op, nr |-> nr, caching |-> caching, res |-> call.res,
     calls |-> call.calls, acalls |-> call.acalls, afail |-> call.afail,
     total |-> tot]

\* The record follows the calls up to MaxHist of them, or to the first one
\* that fails
Followed == Len(hist) < MaxHist /\ \A i \in 1 .. Len(hist) : hist[i].res = 0

\* Entry: the locals, and order = min(MAX_ORDER - 1, __fls(num_pages))
TtmAllocBegin(t, n, caching) ==
    /\ th[t].pc = "idle"
    /\ stage = "up"
    /\ Followed
    /\ ~tt.populated
    /\ tt' = [populated |-> FALSE, num_pages |-> n, caching |-> caching,
              pages |-> <<>>]
    /\ th' = [th EXCEPT ![t].pc = "ttm_alloc", ![t].num_pages = n,
                        ![t].order = OrderFirst(n),
                        ![t].cmark = 0, ![t].hits = 0,
                        ![t].pre0 = Obs(t, total)]
    /\ snap' = IF Recorded(t)
               THEN [count |-> count, total |-> total, caching |-> caching]
               ELSE snap
    /\ fresh' = {}
    /\ last' = IF Recorded(t) THEN NoCall ELSE last
    /\ UNCHANGED <<conf, loop, dyn, dma_mapped, stage, hist, rorder, rattr, registry, live, order, items, count,
                   total, regLock, owner, rrK, rrLost, ub>>

\* ttm_pool_apply_caching(first, last, caching) can fail only where it calls
\* set_pages_array_wc / _uc: on x86, for a non-empty range
CachingMayFail(first, lastp) ==
    x86 /\ tt.caching # "cached" /\ lastp - first # 0

\* ttm_pool_map can fail only where it calls dma_map_page.  It is called
\* when tt->dma_address is set, which has no other effect on the state
\* modelled: the failure is possible in every call.
MapMayFail == ~use_dma_alloc

\* "dma": the ttm_tt has a dma_address array and the pool maps the pages
\* itself (with use_dma_alloc ttm_pool_map copies dma->addr and
\* ttm_pool_unmap returns at once)
DmaFollowed == probe = "dma" /\ ~use_dma_alloc

\* ttm_pool_map that succeeds: dma_map_page of the run
ttm_pool_map(p) == IF DmaFollowed THEN dma_mapped \cup {p} ELSE dma_mapped

\* ttm_pool_unmap: dma_unmap_page of the run
ttm_pool_unmap(p) == IF DmaFollowed THEN dma_mapped \ {p} ELSE dma_mapped

\* The offset in a page array of its i-th run, in base pages
RECURSIVE Offset(_, _)
Offset(s, i) == IF i = 1 THEN 0
                ELSE Offset(s, i - 1) + Pow2(ttm_pool_page_order(s[i - 1]))

\* Variant of ttm_pool_apply_caching that changes no attribute
ApplyCachingSkips(attr, first, lastp) == attr

\* ttm_pool_apply_caching(first, last, tt->caching) on the attributes attr:
\* set_pages_array_wc / _uc on the pages of tt->pages in [first, last), on
\* x86 only; highmem pages have no mapping to change
ttm_pool_apply_caching(attr, first, lastp) ==
    IF x86 /\ tt.caching # "cached"
    THEN [q \in Runs |->
            IF /\ attr[q] # "high"
               /\ \E i \in 1 .. Len(tt.pages) :
                     /\ tt.pages[i] = q
                     /\ Offset(tt.pages, i) >= first
                     /\ Offset(tt.pages, i) < lastp
            THEN tt.caching ELSE attr[q]]
    ELSE attr

\* alloc_pages calls of a populate that fails with p in hand: those of the
\* iterations before, and the one of this iteration when p is fresh (hits
\* as before) or when it is the order-0 call that failed (no p, pages left)
AllocFails(t, p) ==
    th[t].afail + (IF p = NoPage /\ th[t].num_pages > 0 THEN 1 ELSE 0)
AllocCalls(t, p, hits) ==
    th[t].acalls + (IF p = NoPage
                    THEN (IF th[t].num_pages > 0 THEN 1 ELSE 0)
                    ELSE (IF hits = th[t].hits THEN 1 ELSE 0))

\* Variant of TtmAllocFail that returns after error_free_page: the runs
\* already deposited are not released
TtmAllocFailKeepsRuns(t, p, r, hits) ==
    /\ owner' = Released(p)
    /\ rattr' = WriteBack(p)
    /\ tt' = NoTT
    /\ UNCHANGED dma_mapped
    /\ fresh' = {}
    /\ snap' = NoSnap
    /\ Ret(t, [NoCall EXCEPT !.op = "alloc", !.res = r, !.nr = tt.num_pages,
                              !.pre0 = th[t].pre0, !.hits = Obs(t, hits),
                              !.acalls = Warm(t, AllocCalls(t, p, hits)),
                              !.afail = Warm(t, AllocFails(t, p))])

\* The run p of the current iteration, taken from a bucket or from the page
\* allocator and not yet deposited, is with the caller
InHand(p) == IF p \in Runs THEN [owner EXCEPT ![p] = "hand"] ELSE owner

\* Variant of error_free_page that leaves the run with its holder
FreePageSkipped(own, p) == own

\* ttm_pool_free_page on the error paths: the run goes to the page
\* allocator; "twice" marks a run released that was released already
error_free_page(own, p) ==
    IF p \in Runs
    THEN [own EXCEPT ![p] = IF @ = "freed" THEN "twice" ELSE "freed"]
    ELSE own

\* The loop of error_free_all: one ttm_pool_free_page per run deposited in
\* tt->pages, stepping by the run's recorded order
RECURSIVE error_free_all(_, _)
error_free_all(own, s) ==
    IF s = <<>> THEN own
    ELSE error_free_all(error_free_page(own, Head(s)), Tail(s))

\* error_free_page (with p) and error_free_all: p and every run deposited so
\* far go back to the page allocator, none to a bucket; the call returns r.
\* Neither label calls ttm_pool_unmap, and ttm_pool_free_page calls
\* dma_unmap_page for no run: the mappings made stay.
TtmAllocFail(t, p, r, hits) ==
    /\ owner' = error_free_all(error_free_page(InHand(p), p), tt.pages)
    /\ UNCHANGED dma_mapped
    /\ rattr' = Kept([q \in Runs |->
                    IF q = p \/ InSeq(tt.pages, q) THEN "cached"
                    ELSE rattr[q]])
    /\ tt' = NoTT
    /\ fresh' = {}
    /\ snap' = NoSnap
    /\ Ret(t, [NoCall EXCEPT !.op = "alloc", !.res = r, !.nr = tt.num_pages,
                              !.pre0 = th[t].pre0, !.hits = Obs(t, hits),
                              !.acalls = Warm(t, AllocCalls(t, p, hits)),
                              !.afail = Warm(t, AllocFails(t, p))])

\* Error numbers; set_pages_array_wc / _uc return one of them
ENOMEM == 12
EFAULT == 14
Errors == {-ENOMEM, -EFAULT}

\* One loop iteration from the point where p is a run: the caching, the
\* accounting of the old variant (ttm_mem_global_alloc_page), the mapping,
\* and the deposit in tt->pages with the loop's update of order.
TtmAllocPage(t, p, apply, hit) ==
    LET o == th[t].order
        n == th[t].num_pages
        done == tt.num_pages - n
        hits == th[t].hits + hit
        left == n - Pow2(o)
        \* alloc_pages hands out write-back pages; of a fresh run, apply
        \* says whether it is a highmem one (PageHighMem(p)).  Without
        \* CONFIG_X86 no code reads or sets an attribute: none is kept.
        attr == IF hit = 0
                THEN [rattr EXCEPT ![p] = IF apply /\ x86 THEN "high"
                                          ELSE "cached"]
                ELSE rattr
    IN
    \/ /\ apply
       /\ CachingMayFail(th[t].cmark, done)
       /\ \E r \in Errors : TtmAllocFail(t, p, r, hits)
    \/ /\ variant = "old"
       /\ TtmAllocFail(t, p, -ENOMEM, hits)
    \/ /\ MapMayFail
       /\ TtmAllocFail(t, p, -EFAULT, hits)
    \/ /\ owner' = Handed(p, "tt")
       /\ rattr' = Kept(IF apply
                        THEN ttm_pool_apply_caching(attr, th[t].cmark, done)
                        ELSE attr)
       /\ tt' = [tt EXCEPT !.pages = Append(@, p)]
       /\ dma_mapped' = ttm_pool_map(p)
       /\ fresh' = IF Recorded(t) /\ hit = 0 THEN fresh \cup {p} ELSE fresh
       /\ th' = [th EXCEPT ![t].num_pages = left,
                           ![t].order = IF left > 0 THEN OrderNext(o, left)
                                        ELSE o,
                           ![t].cmark = IF apply THEN done + Pow2(o) ELSE @,
                           ![t].hits = hits,
                           ![t].acalls = Warm(t, @ + (IF hit = 0 THEN 1
                                                      ELSE 0))]
       /\ UNCHANGED <<last, snap>>

\* One evaluation of the loop condition with what follows it: an iteration
\* (bucket hit, fresh run, or no run at this order), or, with num_pages = 0,
\* the final ttm_pool_apply_caching and the return.
TtmAllocIter(t) ==
    /\ th[t].pc = "ttm_alloc"
    /\ LET o == th[t].order
           n == th[t].num_pages
           pt == ttm_pool_select_type(tt.caching, o)
           hit == IF pt = NoPool THEN NoPage ELSE FirstPage(pt)
       IN
       IF n = 0
       THEN /\ \/ /\ tt' = [tt EXCEPT !.populated = TRUE]
                  /\ rattr' = Kept(ttm_pool_apply_caching(rattr, th[t].cmark,
                                                          tt.num_pages))
                  /\ Ret(t, [NoCall EXCEPT !.op = "alloc", !.nr = tt.num_pages,
                                           !.pre0 = th[t].pre0,
                                           !.hits = Obs(t, th[t].hits),
                                           !.len0 = Obs(t, PagesOf(tt.pages)),
                                           !.acalls = th[t].acalls,
                                           !.afail = th[t].afail])
                  /\ UNCHANGED <<owner, fresh, snap, dma_mapped>>
               \/ /\ CachingMayFail(th[t].cmark, tt.num_pages)
                  /\ \E r \in Errors : TtmAllocFail(t, NoPage, r, th[t].hits)
            /\ UNCHANGED <<items, count, total, rorder>>
       ELSE IF hit # NoPage
       THEN /\ SpinFree(pt)
            /\ TakeFirst(pt)
            /\ TtmAllocPage(t, hit, TRUE, RunPages(pt))
            /\ UNCHANGED rorder
       ELSE /\ UNCHANGED <<items, count, total>>
            /\ \/ /\ FreeRuns # {}
                  /\ rorder' = [rorder EXCEPT ![FreshRun] = o]
                  /\ \E highmem \in BOOLEAN :
                        TtmAllocPage(t, FreshRun, highmem, 0)
               \/ /\ UNCHANGED rorder
                  /\ IF o > 0
                     THEN /\ th' = [th EXCEPT
                                      ![t].order = OrderFallback(o, n),
                                      ![t].acalls = Warm(t, @ + 1),
                                      ![t].afail = Warm(t, @ + 1)]
                          /\ UNCHANGED <<owner, tt, fresh, snap, last, rattr,
                                         dma_mapped>>
                     ELSE TtmAllocFail(t, NoPage, -ENOMEM, th[t].hits)
    /\ hist' = IF probe = "warm" /\ th'[t].pc = "idle"
               THEN Append(hist, Summary(last', tt.num_pages, tt.caching,
                                         total'))
               ELSE hist
    /\ UNCHANGED <<conf, loop, dyn, stage, registry, live, order, regLock, rrK, rrLost,
                   ub>>

\* ------------------------------------------- the loop of ttm_pool_alloc
\* The for loop taken alone, on order and num_pages: what an iteration gets
\* is an input, "run" for a run from the bucket or, after a miss, from
\* alloc_pages, "fail" for none from either, "error" for a run and then an
\* error from the caching or the mapping.  tries keeps each order asked for
\* with the pages that were left to get.
LoopBegin(n) ==
    /\ loop.pc \in {"idle", "done", "failed"}
    /\ loop' = [pc |-> "loop", nr |-> n, num_pages |-> n,
                order |-> OrderFirst(n), res |-> 0, tries |-> <<>>]
    /\ UNCHANGED <<core, dyn, ub>>

LoopOutcomes == {"run", "fail", "error"}

LoopIter(out, err) ==
    /\ loop.pc = "loop"
    /\ LET o == loop.order
           n == loop.num_pages
           left == n - Pow2(o)
           try == [order |-> o, left |-> n, out |-> out]
       IN
       IF n = 0
       \* the ttm_pool_apply_caching after the loop, and the return
       THEN loop' = IF out = "error"
                    THEN [loop EXCEPT !.pc = "failed", !.res = err]
                    ELSE [loop EXCEPT !.pc = "done"]
       ELSE CASE out = "fail" ->
                   loop' = IF o > 0
                           THEN [loop EXCEPT !.order = OrderFallback(o, n),
                                             !.tries = Append(@, try)]
                           ELSE [loop EXCEPT !.pc = "failed", !.res = -ENOMEM,
                                             !.tries = Append(@, try)]
              [] out = "error" ->
                   loop' = [loop EXCEPT !.pc = "failed", !.res = err,
                                        !.tries = Append(@, try)]
              [] OTHER ->
                   loop' = [loop EXCEPT !.num_pages = left,
                                        !.order = IF left # 0
                                                  THEN OrderNext(o, left)
                                                  ELSE o,
                                        !.tries = Append(@, try)]
    /\ UNCHANGED <<core, dyn, ub>>

\* ------------------------------------------------------------ ttm_pool_free
TtmFreeBegin(t) ==
    /\ th[t].pc = "idle"
    /\ tt.populated
    /\ Followed
    /\ th' = [th EXCEPT ![t].pc = "ttm_free", ![t].pre0 = Obs(t, total)]
    /\ last' = IF Recorded(t) THEN NoCall ELSE last
    /\ UNCHANGED <<conf, loop, dyn, ttm, registry, live, order, items, count, total,
                   regLock, owner, rrK, rrLost, ub>>

\* The counter the old variant's ttm_pool_free compares with page_pool_size:
\* nothing ever writes it.
allocated_pages == 0

\* One iteration of the loop over tt->pages: the run goes to the bucket of
\* its caching class and order, or to the page allocator when there is none.
\* After the last one the old variant evaluates
\*   while (atomic_long_read(&allocated_pages) > page_pool_size)
\*           ttm_pool_shrink();
TtmFreeIter(t) ==
    /\ th[t].pc = "ttm_free"
    /\ IF tt.pages # <<>>
       THEN LET p == Head(tt.pages)
                pt == ttm_pool_select_type(tt.caching, ttm_pool_page_order(p))
            IN
            /\ tt' = [tt EXCEPT !.pages = Tail(@)]
            /\ dma_mapped' = ttm_pool_unmap(p)
            /\ IF pt # NoPool
               THEN AddLink(t, pt, p, "ttm_free") /\ UNCHANGED rattr
               ELSE /\ owner' = Released(p)
                    /\ rattr' = WriteBack(p)
                    /\ UNCHANGED <<items, count, total, th, last, rrK, rrLost>>
       ELSE IF variant = "old" /\ allocated_pages > page_pool_size
       THEN UNCHANGED <<tt, items, count, total, owner, th, last, rrK, rrLost,
                        rattr, dma_mapped>>
       ELSE /\ tt' = NoTT
            /\ Ret(t, [NoCall EXCEPT !.op = "free", !.calls = th[t].calls,
                                     !.pre0 = th[t].pre0])
            /\ UNCHANGED <<items, count, total, owner, rrK, rrLost, rattr,
                           dma_mapped>>
    /\ hist' = IF probe = "warm" /\ th'[t].pc = "idle"
               THEN Append(hist, Summary(last', tt.num_pages, tt.caching,
                                         total'))
               ELSE hist
    /\ UNCHANGED <<conf, loop, dyn, stage, rorder, snap, fresh, registry, live, order,
                   regLock, ub>>

\* --------------------------------------- ttm_pool_fini, ttm_pool_mgr_fini
\* The first bucket of a sequence of ttm_pool_type_init calls that has not
\* been finalised: the one the loop of the matching fini is at
FirstLive(calls) ==
    IF \E k \in 1 .. Len(calls) : calls[k] \in live
    THEN calls[CHOOSE k \in 1 .. Len(calls) :
                 /\ calls[k] \in live
                 /\ \A j \in 1 .. (k - 1) : calls[j] \notin live]
    ELSE NoPool

\* One iteration of the loops of a fini over the buckets in calls, up to
\* the list_del of drm_page_pool_fini / _destroy (the drain follows in
\* FiniDrain and FiniFree), or the return
TypeFini(t, calls, during, after) ==
    /\ th[t].pc = "idle"
    /\ IF FirstLive(calls) # NoPool
       THEN /\ ListDelBucket(t, FirstLive(calls))
            /\ stage' = during
       ELSE /\ stage' = after
            /\ UNCHANGED <<conf, loop, dyn, dma_mapped, hist, rorder, tt, snap, fresh, rattr, registry,
                           live, order, items, count, total, regLock, owner,
                           th, last, rrK, rrLost, ub>>

\* ttm_pool_fini of the one pool, once nothing is populated from it.  The
\* new variant finalises the pool's own buckets with use_dma_alloc only.
ttm_pool_fini(t) ==
    /\ stage \in {"up", "pool_fini"}
    /\ tt = NoTT
    /\ TypeFini(t, ttm_pool_init, "pool_fini", "pool_down")

\* ttm_pool_mgr_fini, after the pool is gone
ttm_pool_mgr_fini(t) ==
    /\ stage \in {"pool_down", "mgr_fini"}
    /\ TypeFini(t, ttm_pool_mgr_init, "mgr_fini", "down")

\* ====================================== the dynamic page pool: actions
\* dynamic_page_pool_add_clean / _add_dirty: the section under pool->mutex
DynAdd(index, page) ==
    /\ ditems' = [ditems EXCEPT ![index] = Append(@, page)]
    /\ dcount' = [dcount EXCEPT ![index] = @ + 1]

\* dynamic_page_pool_remove(pool, index): NULL when the count is 0
DynFirst(index) ==
    IF dcount[index] = 0 THEN NoPage
    ELSE IF ditems[index] # <<>> THEN Head(ditems[index]) ELSE Garbage

DynRemove(index) ==
    IF DynFirst(index) = NoPage
    THEN UNCHANGED <<ditems, dcount>>
    ELSE /\ ditems' = [ditems EXCEPT ![index] = IF @ # <<>> THEN Tail(@) ELSE @]
         /\ dcount' = [dcount EXCEPT ![index] = @ - 1]

\* Variant of FetchIndex that also takes from the dirty lists
FetchDirtyFirst ==
    IF dcount[POOL_HIGHDEFERRED] # 0 THEN POOL_HIGHDEFERRED
    ELSE IF dcount[POOL_LOWDEFERRED] # 0 THEN POOL_LOWDEFERRED
    ELSE IF dcount[POOL_HIGHPAGE] # 0 THEN POOL_HIGHPAGE
    ELSE IF dcount[POOL_LOWPAGE] # 0 THEN POOL_LOWPAGE
    ELSE "none"

\* dynamic_page_pool_fetch under pool->mutex: clean highmem pages first
FetchIndex ==
    IF dcount[POOL_HIGHPAGE] # 0 THEN POOL_HIGHPAGE
    ELSE IF dcount[POOL_LOWPAGE] # 0 THEN POOL_LOWPAGE
    ELSE "none"

dynamic_page_pool_deferred_total ==
    (dcount[POOL_LOWDEFERRED] + dcount[POOL_HIGHDEFERRED]) * Pow2(pool_order)

\* A step of a thread that works on the pool: once the pool is kfree'd it
\* reads and writes freed memory
Touched == IF dlist.gone THEN [dlist EXCEPT !.uaf = TRUE] ELSE dlist

\* A page changes hands
DynGive(p, to) == IF p \in DPages THEN [dst EXCEPT ![p] = to] ELSE dst

\* ------------------------------------------------- dynamic_page_pool_free
\* A page of another order is refused with a warning: it is neither pooled
\* nor released.  Otherwise it joins the dirty list of its kind and the
\* cleaner is woken.
dynamic_page_pool_free(t, page) ==
    /\ dth[t].pc = "idle"
    /\ IF page = Foreign THEN TRUE ELSE dst[page] = "caller"
    /\ IF pool_order # compound_order(page)
       THEN /\ dth' = [dth EXCEPT ![t].warned = TRUE]
            /\ UNCHANGED <<dcount, ditems, dst, dzero>>
       ELSE /\ dmutex = NoThread
            /\ DynAdd(IF PageHighMem(page) THEN POOL_HIGHDEFERRED
                      ELSE POOL_LOWDEFERRED, page)
            /\ dst' = DynGive(page, "pool")
            /\ dzero' = [dzero EXCEPT ![page] = FALSE]
            /\ dth' = [dth EXCEPT ![t].warned = FALSE]
    /\ UNCHANGED <<core, loop, dlist, ub, dmutex>>

\* ---------------------------------------- dynamic_page_pool_deferred_free
\* wait_event_freezable(pool->waitqueue, deferred_total(pool) > 0)
DynWake(t) ==
    /\ dth[t].pc = "wait"
    /\ dynamic_page_pool_deferred_total > 0
    /\ dth' = [dth EXCEPT ![t].pc = "clean_lock", ![t].ret = "wait"]
    /\ dlist' = Touched
    /\ UNCHANGED <<core, loop, ub, dcount, ditems, dmutex, dst, dzero>>

\* ------------------------------------------------ dynamic_page_pool_clean
\* mutex_lock(&pool->mutex) and passes = 4
CleanLock(t) ==
    /\ dth[t].pc = "clean_lock"
    /\ dmutex = NoThread
    /\ dmutex' = t
    /\ dth' = [dth EXCEPT ![t].pc = "pass", ![t].passes = Passes]
    /\ dlist' = Touched
    /\ UNCHANGED <<core, loop, ub, dcount, ditems, dst, dzero>>

\* `int p;` of dynamic_page_pool_clean_pages has no initialiser: its first
\* read yields 0 or anything else (followed once in a behaviour).
UninitP == {0, Garbage}

\* while (passes--): a pass cleans the dirty highmem list, else the dirty
\* lowmem list; after the last one mutex_unlock and return.
CleanPass(t) ==
    /\ dth[t].pc = "pass"
    /\ IF dth[t].passes = 0
       THEN /\ dmutex' = NoThread
            /\ dth' = [dth EXCEPT ![t].pc = dth[t].ret, ![t].ret = "idle",
                                  ![t].index = "none", ![t].p = 0,
                                  ![t].after = "idle", ![t].addr = "unset"]
       ELSE /\ UNCHANGED dmutex
            /\ LET index == IF dcount[POOL_HIGHDEFERRED] # 0
                            THEN POOL_HIGHDEFERRED
                            ELSE IF dcount[POOL_LOWDEFERRED] # 0
                            THEN POOL_LOWDEFERRED ELSE "none"
               \* with nothing dirty this pass and, pool->mutex being held,
               \* those that follow do nothing
               IN IF index = "none"
                  THEN dth' = [dth EXCEPT ![t].passes = 0]
                  ELSE \E p0 \in (IF ub THEN {0} ELSE UninitP) :
                          dth' = [dth EXCEPT ![t].passes = @ - 1,
                                             ![t].pc = "collect",
                                             ![t].index = index,
                                             ![t].p = p0,
                                             ![t].taken = 0]
    /\ dlist' = Touched
    /\ UNCHANGED <<core, loop, ub, dcount, ditems, dst, dzero>>

\* Variant of BatchFull: the array is never taken for full
BatchNeverFull(p) == FALSE

\* if (p == ARRAY_SIZE(pages))
BatchFull(p) == p = BatchSize

\* "batch": the runs this call of dynamic_page_pool_clean_pages has removed
\* so far, counted up to one more than a batch
PassTaken(n) == IF probe = "batch" THEN Min(n + 1, BatchSize + 1) ELSE n

\* dynamic_page_pool_clean_pages: one evaluation of while (pool->count[index])
\* with the body, or with the if (p) that follows the loop.  With a p that
\* is not a count of array entries the page removed is stored outside what
\* is zeroed and added later: it is in no list and with nobody.
CleanCollect(t) ==
    /\ dth[t].pc = "collect"
    /\ LET index == dth[t].index
           page == DynFirst(index)
           p == dth[t].p
       IN
       IF dcount[index] # 0
       THEN /\ DynRemove(index)
            /\ IF p = Garbage
               THEN /\ dst' = DynGive(page, "lost")
                    /\ ub' = TRUE
                    /\ UNCHANGED dth
               ELSE /\ dst' = DynGive(page, "held")
                    /\ UNCHANGED ub
                    /\ dth' = [dth EXCEPT
                                 ![t].pages = Append(@, page),
                                 ![t].p = p + 1,
                                 ![t].after = "collect",
                                 ![t].taken = PassTaken(@),
                                 ![t].pc = IF BatchFull(p + 1)
                                           THEN "zero" ELSE "collect"]
       ELSE /\ dth' = [dth EXCEPT ![t].pc = IF p # 0 /\ p # Garbage
                                            THEN "zero" ELSE "pass",
                                  ![t].after = "pass"]
            /\ UNCHANGED <<dcount, ditems, dst, ub>>
    /\ dlist' = Touched
    /\ UNCHANGED <<core, loop, dmutex, dzero>>

\* Variant of ZeroUnlocked that keeps pool->mutex across the mapping
ZeroStaysLocked(t) == t

\* mutex_unlock(&pool->mutex) of dynamic_page_pool_zero_and_add
ZeroUnlocked(t) == NoThread

\* dynamic_page_pool_zero_and_add: mutex_unlock
ZeroUnlock(t) ==
    /\ dth[t].pc = "zero"
    /\ dmutex' = ZeroUnlocked(t)
    /\ dth' = [dth EXCEPT ![t].pc = "vmap", ![t].addr = "unset"]
    /\ dlist' = Touched
    /\ UNCHANGED <<core, loop, ub, dcount, ditems, dst, dzero>>

\* vmap, memset and vunmap of the batch; with no mapping the pages are freed
ZeroMap(t, mapped) ==
    /\ dth[t].pc = "vmap"
    /\ LET batch == {dth[t].pages[i] : i \in 1 .. Len(dth[t].pages)} IN
       IF mapped
       THEN /\ dzero' = [q \in DPages |-> q \in batch \/ dzero[q]]
            /\ dth' = [dth EXCEPT ![t].pc = "add_clean", ![t].addr = "mapped"]
            /\ UNCHANGED dst
       ELSE /\ dst' = [q \in DPages |-> IF q \in batch THEN "free" ELSE dst[q]]
            /\ dth' = [dth EXCEPT ![t].pc = "add_clean", ![t].pages = <<>>,
                                  ![t].addr = "null"]
            /\ UNCHANGED dzero
    /\ dlist' = Touched
    /\ UNCHANGED <<core, loop, ub, dcount, ditems, dmutex>>

\* for (p = 0; p < num; p++) dynamic_page_pool_add_clean(pool, pages[p]):
\* one call, which takes pool->mutex for itself
ZeroAddClean(t) ==
    /\ dth[t].pc = "add_clean"
    /\ dth[t].pages # <<>>
    /\ dmutex = NoThread
    /\ LET page == Head(dth[t].pages) IN
       /\ DynAdd(IF PageHighMem(page) THEN POOL_HIGHPAGE ELSE POOL_LOWPAGE,
                 page)
       /\ dst' = DynGive(page, "pool")
       /\ dth' = [dth EXCEPT ![t].pages = Tail(@)]
    /\ dlist' = Touched
    /\ UNCHANGED <<core, loop, ub, dmutex, dzero>>

\* out: mutex_lock, and back in dynamic_page_pool_clean_pages: p = 0 and the
\* loop again, or the return to dynamic_page_pool_clean
ZeroRelock(t) ==
    /\ dth[t].pc = "add_clean"
    /\ dth[t].pages = <<>>
    /\ dmutex = NoThread
    /\ dmutex' = t
    /\ dth' = [dth EXCEPT ![t].pc = dth[t].after, ![t].p = 0]
    /\ dlist' = Touched
    /\ UNCHANGED <<core, loop, ub, dcount, ditems, dst, dzero>>

\* ------------------------------------------------ dynamic_page_pool_alloc
\* The first dynamic_page_pool_fetch: a clean page goes to the caller, or the
\* caller cleans the dirty lists itself ("Try pulling from the deferred
\* freelist").
DynAllocFetch(t) ==
    /\ dth[t].pc = "idle"
    /\ dmutex = NoThread
    /\ IF FetchIndex # "none"
       THEN /\ DynRemove(FetchIndex)
            /\ dst' = DynGive(DynFirst(FetchIndex), "caller")
            /\ dzero' = [q \in DPages |-> q # DynFirst(FetchIndex) /\ dzero[q]]
            /\ dth' = [dth EXCEPT ![t].warned = FALSE]
       ELSE /\ dth' = [dth EXCEPT ![t].pc = "clean_lock", ![t].ret = "refetch",
                                  ![t].warned = FALSE]
            /\ UNCHANGED <<dcount, ditems, dst, dzero>>
    /\ UNCHANGED <<core, loop, dlist, ub, dmutex>>

\* dynamic_page_pool_alloc(pool): a NULL pool handle is warned about and
\* answered with NULL before the pool or the allocator is looked at
dynamic_page_pool_alloc(t, handle) ==
    IF handle = NoPool
    THEN /\ dth[t].pc = "idle"
         /\ dth' = [dth EXCEPT ![t].warned = TRUE]
         /\ UNCHANGED <<core, loop, dlist, ub, dmutex, dcount, ditems, dst,
                        dzero>>
    ELSE DynAllocFetch(t)

\* Pages the page allocator can hand out; it hands out the lowest
DFree == {p \in DPages : dst[p] = "free"}
DFreshPage == CHOOSE p \in DFree : \A q \in DFree : p <= q

\* fatal_signal_pending(current), where it is followed: the calling task
\* has a fatal signal pending throughout
FatalPending == probe = "signal"

\* The second fetch, and dynamic_page_pool_alloc_pages when it finds nothing:
\* NULL with a fatal signal pending or without memory
DynAllocRefetch(t, got) ==
    /\ dth[t].pc = "refetch"
    /\ dmutex = NoThread
    /\ IF FetchIndex # "none"
       THEN /\ got
            /\ DynRemove(FetchIndex)
            /\ dst' = DynGive(DynFirst(FetchIndex), "caller")
            /\ dzero' = [q \in DPages |-> q # DynFirst(FetchIndex) /\ dzero[q]]
            /\ dth' = [dth EXCEPT ![t].pc = "idle"]
       ELSE /\ UNCHANGED <<dcount, ditems>>
            /\ IF got /\ ~FatalPending /\ DFree # {}
               THEN /\ dst' = DynGive(DFreshPage, "caller")
                    /\ dzero' = [dzero EXCEPT ![DFreshPage] = FALSE]
                    /\ dth' = [dth EXCEPT ![t].pc = "idle"]
               ELSE /\ dth' = [dth EXCEPT ![t].pc = "idle"]
                    /\ UNCHANGED <<dst, dzero>>
    /\ UNCHANGED <<core, loop, dlist, ub, dmutex>>

\* ---------- dynamic_page_pool_shrink and dynamic_page_pool_do_shrink
\* Variant of ListUnlock that returns with pool_list_lock held
ListUnlockSkipped(t) == t

\* mutex_unlock(&pool_list_lock)
ListUnlock(t) == NoThread

\* dynamic_page_pool_shrink takes pool_list_lock and enters do_shrink on
\* the pool of the list, with nr_to_scan = nr > 0 (with 0 it only reads the
\* counts).  The shrinker is entered by a thread of its own, or from within
\* the allocation that vmap makes ("we may trigger the shinker"); it
\* returns to where it was entered.
DynShrinkBegin(t, nr, high) ==
    /\ dth[t].pc \in {"idle", "vmap"}
    /\ dlist.lock = NoThread
    /\ dlist.linked
    /\ dlist' = [dlist EXCEPT !.lock = t]
    /\ dth' = [dth EXCEPT ![t].pc = "dshrink", ![t].nr = nr, ![t].high = high,
                          ![t].freed = 0, ![t].back = dth[t].pc]
    /\ UNCHANGED <<core, loop, ub, dcount, ditems, dmutex, dst, dzero>>

\* The list do_shrink takes a page from, as written: with dirty highmem
\* pages counted it removes from the clean highmem list
ShrinkIndex(high) ==
    IF dcount[POOL_LOWDEFERRED] # 0 THEN POOL_LOWDEFERRED
    ELSE IF high /\ dcount[POOL_HIGHDEFERRED] # 0 THEN POOL_HIGHPAGE
    ELSE IF dcount[POOL_LOWPAGE] # 0 THEN POOL_LOWPAGE
    ELSE IF high /\ dcount[POOL_HIGHPAGE] # 0 THEN POOL_HIGHPAGE
    ELSE "none"

\* while (freed < nr_to_scan): the section under pool->mutex, or the return
DynShrinkTake(t) ==
    /\ dth[t].pc = "dshrink"
    /\ LET index == ShrinkIndex(dth[t].high) IN
       IF dth[t].freed >= dth[t].nr
       THEN /\ dth' = [dth EXCEPT ![t].pc = dth[t].back, ![t].nr = 0,
                                  ![t].freed = 0, ![t].high = FALSE,
                                  ![t].back = "idle"]
            /\ dlist' = [dlist EXCEPT !.lock = ListUnlock(t)]
            /\ UNCHANGED <<dcount, ditems, dst>>
       ELSE /\ dmutex = NoThread
            /\ IF index = "none"
               THEN /\ dth' = [dth EXCEPT ![t].pc = dth[t].back, ![t].nr = 0,
                                          ![t].freed = 0, ![t].high = FALSE,
                                          ![t].back = "idle"]
                    /\ dlist' = [dlist EXCEPT !.lock = ListUnlock(t)]
                    /\ UNCHANGED <<dcount, ditems, dst>>
               ELSE /\ DynRemove(index)
                    /\ dst' = DynGive(DynFirst(index), "held")
                    /\ dth' = [dth EXCEPT ![t].pc = "dshrink_free",
                                          ![t].page = DynFirst(index)]
                    /\ UNCHANGED dlist
    /\ UNCHANGED <<core, loop, ub, dmutex, dzero>>

\* dynamic_page_pool_free_pages(pool, page) and freed += 1 << pool->order.
\* __free_pages of the NULL that the remove from an empty list returned is a
\* NULL dereference: the thread ends there or goes on.
DynShrinkFree(t) ==
    /\ dth[t].pc = "dshrink_free"
    /\ dst' = DynGive(dth[t].page, "free")
    /\ IF dth[t].page = NoPage
       THEN /\ ub' = TRUE
            /\ \E pc \in {"oops", "dshrink"} :
                 dth' = [dth EXCEPT ![t].pc = pc,
                                    ![t].freed = Min(@ + Pow2(pool_order),
                                                     MaxScan)]
       ELSE /\ UNCHANGED ub
            /\ dth' = [dth EXCEPT ![t].pc = "dshrink", ![t].page = NoPage,
                                  ![t].freed = Min(@ + Pow2(pool_order),
                                                   MaxScan)]
    /\ UNCHANGED <<core, loop, dlist, dcount, ditems, dmutex, dzero>>

\* ---------------------------------------------- dynamic_page_pool_destroy
\* mutex_lock(&pool_list_lock); list_del(&pool->list); mutex_unlock
DestroyUnlink(t) ==
    /\ dth[t].pc = "idle"
    /\ dlist.linked
    /\ dlist.lock = NoThread
    /\ dlist' = [dlist EXCEPT !.linked = FALSE]
    /\ dth' = [dth EXCEPT ![t].pc = "destroy_lock"]
    /\ UNCHANGED <<core, loop, ub, dcount, ditems, dmutex, dst, dzero>>

\* mutex_lock(&pool->mutex)
DestroyLock(t) ==
    /\ dth[t].pc = "destroy_lock"
    /\ dmutex = NoThread
    /\ dmutex' = t
    /\ dth' = [dth EXCEPT ![t].pc = "destroy_drain"]
    /\ UNCHANGED <<core, loop, dlist, ub, dcount, ditems, dst, dzero>>

\* for (i = 0; i < POOL_TYPE_SIZE; i++) while (pool->count[i]): the list the
\* loops are at, pool->mutex being held throughout
PoolTypeOrder ==
    <<POOL_LOWPAGE, POOL_HIGHPAGE, POOL_LOWDEFERRED, POOL_HIGHDEFERRED>>

DestroyIndex ==
    IF \A k \in 1 .. Len(PoolTypeOrder) : dcount[PoolTypeOrder[k]] = 0
    THEN "none"
    ELSE PoolTypeOrder[CHOOSE k \in 1 .. Len(PoolTypeOrder) :
                          /\ dcount[PoolTypeOrder[k]] # 0
                          /\ \A j \in 1 .. k - 1 : dcount[PoolTypeOrder[j]] = 0]

\* page = dynamic_page_pool_remove(pool, i), or, with every count at 0,
\* mutex_unlock(&pool->mutex) and kfree(pool)
DestroyDrain(t) ==
    /\ dth[t].pc = "destroy_drain"
    /\ IF DestroyIndex = "none"
       THEN /\ dmutex' = NoThread
            /\ dlist' = [dlist EXCEPT !.gone = TRUE]
            /\ dth' = [dth EXCEPT ![t].pc = "destroyed"]
            /\ UNCHANGED <<dcount, ditems, dst>>
       ELSE /\ DynRemove(DestroyIndex)
            /\ dst' = DynGive(DynFirst(DestroyIndex), "held")
            /\ dth' = [dth EXCEPT ![t].pc = "destroy_free",
                                  ![t].page = DynFirst(DestroyIndex)]
            /\ UNCHANGED <<dmutex, dlist>>
    /\ UNCHANGED <<core, loop, ub, dzero>>

\* dynamic_page_pool_free_pages(pool, page) of the loop body
DestroyFree(t) ==
    /\ dth[t].pc = "destroy_free"
    /\ dst' = DynGive(dth[t].page, "free")
    /\ dth' = [dth EXCEPT ![t].pc = "destroy_drain", ![t].page = NoPage]
    /\ UNCHANGED <<core, loop, dlist, ub, dcount, ditems, dmutex, dzero>>

\* The cleaner thread of kthread_run is not stopped by destroy: it runs on,
\* on the pool that kfree has released.  What it reads there is undefined:
\* it finds the memory as it left it (its steps above), or it faults.  A
\* thread asleep in wait_event_freezable executes nothing.
UseAfterFree(t) ==
    /\ dlist.gone
    /\ dth[t].pc \notin {"oops", "wait"}
    /\ dlist' = Touched
    /\ ub' = TRUE
    /\ dth' = [dth EXCEPT ![t].pc = "oops"]
    /\ UNCHANGED <<core, loop, dcount, ditems, dmutex, dst, dzero>>

\* --------------------------------------------------------- specification
\* The concurrent specification: T1 is a caller that creates, fills,
\* empties and tears down two buckets (the lowest and the highest order);
\* T2 is a second context that removes and reclaims (the shrinker and
\* the debugfs shrink file).
EnvBuckets == {<<"wc", 0>>, <<"wc", MAX_ORDER - 1>>}

Next ==
    \/ \E b \in EnvBuckets : drm_page_pool_init(T1, b)
    \/ \E b \in EnvBuckets, r \in Runs : drm_page_pool_add(T1, b, r)
    \/ \E t \in Threads : AddAccount(t)
    \/ \E t \in Threads : AddTrim(t)
    \/ \E t \in Threads, b \in EnvBuckets : drm_page_pool_remove(t, b)
    \/ CallShrink(T2)
    \/ \E t \in Threads : ShrinkBegin(t)
    \/ \E t \in Threads : ShrinkEnd(t)
    \/ \E nr \in 0 .. MaxScan : ScanBegin(T2, nr)
    \/ \E t \in Threads : ScanCheck(t)
    \/ \E b \in EnvBuckets : FiniUnlink(T1, b)
    \/ \E t \in Threads : FiniDrain(t)
    \/ \E t \in Threads : FiniFree(t)
    \/ DumpBegin(T2)
    \/ DumpEnd(T2)

Spec == Init /\ [][Next]_vars

\* The same under fair scheduling: a thread inside a call takes its next
\* step, and a thread waiting for the registry mutex gets it (the mutex
\* hands over to its waiters); when a call is made is up to the callers.
ThreadStep(t) ==
    \/ AddAccount(t)
    \/ AddTrim(t)
    \/ ShrinkEnd(t)
    \/ ScanCheck(t)
    \/ FiniDrain(t)
    \/ FiniFree(t)
    \/ DumpEnd(t)

SpecLive ==
    /\ Init
    /\ [][Next]_vars
    /\ \A t \in Threads : WF_vars(ThreadStep(t)) /\ SF_vars(ShrinkBegin(t))

\* The same contexts, with buckets whose free callback may take the registry
\* mutex
SpecLock == InitLock /\ [][Next]_vars

\* The sequential specification: one caller makes every call, one
\* at a time, on the same two buckets.
SeqBuckets == EnvBuckets

NextSeq ==
    \/ \E b \in SeqBuckets : drm_page_pool_init(Caller, b)
    \/ \E b \in SeqBuckets, r \in Runs : drm_page_pool_add(Caller, b, r)
    \/ AddAccount(Caller)
    \/ AddTrim(Caller)
    \/ \E b \in SeqBuckets : drm_page_pool_remove(Caller, b)
    \/ CallShrink(Caller)
    \/ ShrinkBegin(Caller)
    \/ ShrinkEnd(Caller)
    \/ \E nr \in 0 .. MaxScan : ScanBegin(Caller, nr)
    \/ ScanCheck(Caller)
    \/ \E b \in SeqBuckets : FiniUnlink(Caller, b)
    \/ FiniDrain(Caller)
    \/ FiniFree(Caller)

SpecSeq == InitSeq /\ [][NextSeq]_vars

\* The same calls, with the consecutive shrink calls counted instead
SpecRR == InitRR /\ [][NextSeq]_vars

\* The facade used by one caller: it populates and drains one ttm_tt; the
\* drain's adds trim the buckets in the new variant.
NextTtm ==
    \/ \E n \in 1 .. MaxPages, c \in Cachings : TtmAllocBegin(Caller, n, c)
    \/ TtmAllocIter(Caller)
    \/ TtmFreeBegin(Caller)
    \/ TtmFreeIter(Caller)
    \/ AddAccount(Caller)
    \/ AddTrim(Caller)
    \/ ShrinkBegin(Caller)
    \/ ShrinkEnd(Caller)

SpecTtm == InitTtm /\ [][NextTtm]_vars

\* The same for a ttm_tt with a dma_address array, its mappings followed
InitDma == InitTtmWith("dma")

SpecDma == InitDma /\ [][NextTtm]_vars

\* The same from empty buckets with the calls that returned kept
InitWarm == InitTtmWith("warm")

SpecWarm == InitWarm /\ [][NextTtm]_vars

\* The dynamic pool used by a caller that frees and allocates while the
\* pool's kernel thread cleans
InitDyn == InitWith("off") /\ variant = "new" /\ page_pool_size = 0

NextDyn ==
    \/ \E p \in DPages \cup {Foreign} : dynamic_page_pool_free(User, p)
    \/ DynWake(Worker)
    \/ \E t \in Cleaners : CleanLock(t)
    \/ \E t \in Cleaners : CleanPass(t)
    \/ \E t \in Cleaners : CleanCollect(t)
    \/ \E t \in Cleaners : ZeroUnlock(t)
    \/ \E t \in Cleaners, mapped \in BOOLEAN : ZeroMap(t, mapped)
    \/ \E t \in Cleaners : ZeroAddClean(t)
    \/ \E t \in Cleaners : ZeroRelock(t)
    \/ DynAllocFetch(User)
    \/ \E got \in BOOLEAN : DynAllocRefetch(User, got)

SpecDyn == InitDyn /\ [][NextDyn]_vars

\* The same with the runs of each cleaning pass counted
InitDynBatch == InitWith("batch") /\ variant = "new" /\ page_pool_size = 0

SpecDynBatch == InitDynBatch /\ [][NextDyn]_vars

\* The facade from its initialisation to the end of ttm_pool_mgr_fini
InitFini == InitTtmWith("off")

NextFini ==
    \/ NextTtm
    \/ ttm_pool_fini(Caller)
    \/ ttm_pool_mgr_fini(Caller)
    \/ FiniDrain(Caller)
    \/ FiniFree(Caller)

SpecFini == InitFini /\ [][NextFini]_vars

\* The loop of ttm_pool_alloc taken alone
NextOrders ==
    \/ \E n \in 1 .. MaxAsk : LoopBegin(n)
    \/ \E out \in LoopOutcomes, err \in Errors : LoopIter(out, err)

InitOrders == Init /\ variant = "new" /\ page_pool_size = 0

SpecOrders == InitOrders /\ [][NextOrders]_vars

\* Where runs and pages are placed: either the facade with the page
\* attributes followed, or the dynamic pool; neither touches the other's
\* state
NextPlace ==
    \/ probe = "attrs" /\ NextTtm
    \/ probe = "off" /\ NextDyn

SpecPlace == (InitPlace \/ InitDyn) /\ [][NextPlace]_vars

\* Deferred zeroing: every page has been handed out by the empty pool and
\* is with the caller, who frees into the pool; only the pool's thread runs
\* besides, and vmap gives it a mapping every time.  The thread is a kthread
\* that the scheduler runs whenever it can take a step.
InitDynLive ==
    /\ InitBuckets("off")
    /\ free_relocks = FALSE
    /\ variant = "new"
    /\ page_pool_size = 0
    /\ DynInitWith("caller")

WorkerStep ==
    \/ DynWake(Worker)
    \/ CleanLock(Worker)
    \/ CleanPass(Worker)
    \/ CleanCollect(Worker)
    \/ ZeroUnlock(Worker)
    \/ ZeroMap(Worker, TRUE)
    \/ ZeroAddClean(Worker)
    \/ ZeroRelock(Worker)

NextDynLive ==
    \/ \E p \in DPages \cup {Foreign} : dynamic_page_pool_free(User, p)
    \/ WorkerStep

SpecDynLive == InitDynLive /\ [][NextDynLive]_vars /\ WF_vars(WorkerStep)

\* The life of a pool to its end: the caller frees its pages into the pool
\* and destroys it; meanwhile the pool's thread cleans, with or without a
\* mapping from vmap, and the shrinker scans
NextDynEnd ==
    \/ \E p \in DPages : dynamic_page_pool_free(User, p)
    \/ WorkerStep
    \/ ZeroMap(Worker, FALSE)
    \/ \E nr \in 1 .. MaxScan, high \in BOOLEAN :
          DynShrinkBegin(Kswapd, nr, high)
    \/ DynShrinkTake(Kswapd)
    \/ DynShrinkFree(Kswapd)
    \/ DestroyUnlink(User)
    \/ DestroyLock(User)
    \/ DestroyDrain(User)
    \/ DestroyFree(User)
    \/ UseAfterFree(Worker)

SpecDynEnd == InitDynLive /\ [][NextDynEnd]_vars

\* The locks of both pools: either the buckets with their registry, used by
\* two threads, or the dynamic pool to its end, where the allocation inside
\* vmap may enter the shrinker from the pool's own thread (GFP_KERNEL, so
\* without highmem).  Neither touches the other's state.
InitLocks ==
    \/ InitWith("locks")
    \/ /\ InitBuckets("off")
       /\ free_relocks = FALSE
       /\ variant = "new"
       /\ page_pool_size = 0
       /\ DynInitWith("caller")

NextDynReclaim ==
    \/ \E p \in DPages : dynamic_page_pool_free(User, p)
    \/ WorkerStep
    \/ ZeroMap(Worker, FALSE)
    \/ \E nr \in 1 .. MaxScan : DynShrinkBegin(Worker, nr, FALSE)
    \/ DynShrinkTake(Worker)
    \/ DynShrinkFree(Worker)
    \/ DestroyUnlink(User)
    \/ DestroyLock(User)
    \/ DestroyDrain(User)
    \/ DestroyFree(User)
    \/ UseAfterFree(Worker)

NextLocks ==
    \/ probe = "locks" /\ Next
    \/ probe = "off" /\ NextDynReclaim

SpecLocks == InitLocks /\ [][NextLocks]_vars

\* Allocation with a fatal signal pending on the calling task: either the
\* facade, initialised, or the dynamic pool with no bucket registered
InitSignal ==
    \/ InitTtmWith("signal")
    \/ InitWith("signal") /\ variant = "new" /\ page_pool_size = 0

NextSignal ==
    \/ registry # <<>> /\ NextTtm
    \/ registry = <<>> /\ NextDyn

SpecSignal == InitSignal /\ [][NextSignal]_vars

\* Callers that pass a NULL pool handle among their calls: the exported
\* functions of the older bucket variant called in sequence, or the dynamic
\* pool with its cleaner
InitNull == InitWith("calls") /\ (variant = "new" => page_pool_size = 0)

NextNull ==
    \/ variant = "old" /\ NextSeq
    \/ /\ variant = "old"
       /\ \E b \in SeqBuckets \cup {NoPool} : drm_page_pool_fetch(Caller, b)
    \/ variant = "new" /\ NextDyn
    \/ /\ variant = "new"
       /\ \E h \in {NoPool, <<"dynamic", pool_order>>} :
              dynamic_page_pool_alloc(User, h)

SpecNull == InitNull /\ [][NextNull]_vars

\* The same with the shrinker scanning the pool
NextDynShrink ==
    \/ NextDyn
    \/ \E nr \in 1 .. MaxScan, high \in BOOLEAN : DynShrinkBegin(Kswapd, nr, high)
    \/ DynShrinkTake(Kswapd)
    \/ DynShrinkFree(Kswapd)

SpecDynShrink == InitDyn /\ [][NextDynShrink]_vars

\* ================================================================ claims
Quiescent == \A t \in AllThreads : th[t].pc = "idle"
CallerIdle == th[Caller].pc = "idle"

\* C1 (as stated): in every reachable state the stored count of every bucket
\* equals the number of runs linked in it.
C1_CountIsRuns ==
    \A b \in Buckets : count[b] = Len(items[b])

\* C1 (amended): the old variant's count is the number of runs linked; the
\* new variant's page_count is the number of base pages linked, that is the
\* number of runs times 2^order.
C1_CountMatchesList ==
    \A b \in Buckets :
        count[b] = IF variant = "old" THEN Len(items[b])
                   ELSE Len(items[b]) * Pow2(order[b])

C1_Witness ==
    /\ variant = "new"
    /\ \E b \in Buckets : order[b] > 0 /\ Len(items[b]) >= 1 /\ count[b] >= 2
    /\ \E r \in Runs : owner[r] = "freed"

\* C2: whenever no operation is in progress, the global counter equals the
\* number of base pages linked in the buckets.
C2_CounterIsSum ==
    Quiescent => total = PooledPages

\* C3 (as stated): a populate that has returned either succeeded with
\* exactly N base pages in tt->pages, or failed with the global counter at
\* its value from before the call.
C3_AllOrCounterUnchanged ==
    (CallerIdle /\ last.op = "alloc")
        => IF last.res = 0
           THEN tt.populated /\ PagesOf(tt.pages) = last.nr
           ELSE total = last.pre0

\* C3 (amended): a populate that has returned either succeeded with exactly
\* N base pages in tt->pages, or failed with nothing left in tt->pages, no
\* run left with the caller, and the global counter lower than before the
\* call by exactly the base pages of the runs the call had taken from
\* buckets (those runs go to the page allocator, not back to a bucket).
C3_AllOrHitsReleased ==
    (CallerIdle /\ last.op = "alloc")
        => IF last.res = 0
           THEN tt.populated /\ PagesOf(tt.pages) = last.nr
           ELSE /\ total = last.pre0 - last.hits
                /\ tt.pages = <<>>
                /\ \A r \in Runs : owner[r] # "tt"

C3_Witness ==
    /\ CallerIdle /\ last.op = "alloc" /\ last.res # 0
    /\ last.hits > 0 /\ total < last.pre0

\* The runs of the last populate that came from the page allocator and that
\* a drain links in bucket b
FreshIn(b) ==
    {r \in fresh : ttm_pool_select_type(snap.caching, rorder[r]) = b}

\* C4 (as stated): after a successful populate and the drain of the same
\* pages, with no trim, every bucket count and the global counter have their
\* values from before the populate.
C4_RoundTripRestores ==
    (CallerIdle /\ last.op = "free" /\ last.calls = 0)
        => count = snap.count /\ total = snap.total

\* C4 (amended): after such a round trip every bucket count is its value
\* from before the populate plus what the runs that the populate took from
\* the page allocator and the drain linked in that bucket count for, and
\* the global counter is its old value plus the base pages of these runs.
\* The counters are restored when every run was a bucket hit or the caching
\* class has no bucket.
C4_RoundTripKeepsFresh ==
    (CallerIdle /\ last.op = "free" /\ last.calls = 0)
        => /\ \A b \in Buckets :
                count[b] = snap.count[b] + CountStep(b) * Cardinality(FreshIn(b))
           /\ total = snap.total
                + SumOver(Buckets, [b \in Buckets |->
                                      RunPages(b) * Cardinality(FreshIn(b))])
           /\ (fresh = {} \/ ttm_pool_select_type(snap.caching, 0) = NoPool)
                 => count = snap.count /\ total = snap.total

C4_Witness ==
    /\ CallerIdle /\ last.op = "free" /\ last.calls = 0
    /\ fresh # {} /\ total > snap.total /\ snap.total > 0
    /\ \E r \in Runs \ fresh : owner[r] = "pool"

\* C5 (as stated): in both variants and for every prior content of the
\* bucket, a remove that immediately follows add(r) on the same bucket (no
\* trim in between) returns r.
C5_AddRemoveSameRun ==
    (CallerIdle /\ last.op = "remove" /\ last.hot # NoPage)
        => last.page = last.hot

\* C5 (amended): such a remove returns r in the list_add (new) variant for
\* every prior content, and in the list_add_tail (old) variant exactly when
\* the bucket was empty before the add; otherwise the old variant returns
\* the run that was at the head before the add.
C5_AddRemoveByVariant ==
    (CallerIdle /\ last.op = "remove" /\ last.hot # NoPage)
        => IF variant = "new" \/ last.len0 = 1
           THEN last.page = last.hot
           ELSE last.page \in Runs /\ last.page # last.hot

C5_Witness ==
    /\ CallerIdle /\ last.op = "remove" /\ last.hot # NoPage
    /\ variant = "new" /\ last.len0 >= 2 /\ last.page = last.hot

\* C6 (as stated): over K consecutive shrink calls with a stable registry,
\* each of the N registered buckets that stay non-empty loses at least
\* floor(K / N) runs, however many empty buckets are registered.
NonEmptyRegistered == {b \in Buckets : InSeq(registry, b) /\ items[b] # <<>>}

C6_FairAmongNonEmpty ==
    \A b \in NonEmptyRegistered :
        rrLost[b] >= rrK \div Cardinality(NonEmptyRegistered)

\* C6 (amended): each registered bucket that stays non-empty loses at least
\* floor(K / R) runs, where R counts every registered bucket, the empty
\* ones included.
C6_FairAmongRegistered ==
    \A b \in NonEmptyRegistered : rrLost[b] >= rrK \div Len(registry)

C6_Witness ==
    /\ Len(registry) = 2 /\ rrK >= 2
    /\ \E b \in NonEmptyRegistered : rrLost[b] >= 1
    /\ \E e \in Buckets : InSeq(registry, e) /\ items[e] = <<>> /\ rrLost[e] = 0

\* C7: a scan for nr > 0 pages returns when the pages freed have reached nr
\* or the global counter is zero, and not later: before its last shrink call
\* the pages freed were still short of nr.
C7_ScanStopsAtTarget ==
    (CallerIdle /\ last.op = "scan" /\ last.nr > 0 /\ ~ub /\ last.pre0 > 0)
        => /\ last.res >= last.nr \/ total = 0
           /\ last.res - last.lastfreed < last.nr

\* C8: a scan entered with no run in any bucket and a global counter of 0
\* returns 0 and leaves the counter at 0, and no shrink call ever works on
\* something that is not a registered bucket.
C8_EmptyScanIsNoOp ==
    /\ \A t \in AllThreads : th[t].spool # Phantom
    /\ (CallerIdle /\ last.op = "scan" /\ last.nr > 0
        /\ last.pre0 = 0 /\ last.len0 = 0)
           => last.res = 0 /\ total = 0

\* C9: with page_pool_size = M > 0, when a drain that ran alone has returned
\* the global counter is at most M.
C9_DrainWithinLimit ==
    (CallerIdle /\ last.op = "free" /\ page_pool_size > 0)
        => total <= page_pool_size

\* C10: with page_pool_size = 0 an add never calls the shrink, whatever the
\* global counter is, and the run it added is still in its bucket when the
\* add returns.
C10_NoTrimWhenZero ==
    page_pool_size = 0 =>
        /\ \A t \in AllThreads : th[t].shrinkret # "add_trim"
        /\ (CallerIdle /\ last.op = "add")
               => last.calls = 0 /\ InSeq(items[last.pool], last.page)

C10_Witness ==
    /\ page_pool_size = 0 /\ variant = "new"
    /\ CallerIdle /\ last.op = "add" /\ last.pre0 >= 1 /\ total >= 2

\* A thread that waits for the registry mutex: at the mutex_lock of a shrink
\* call, or inside a free callback that takes it
LockWaiting(t) ==
    \/ th[t].pc = "shrink" /\ regLock # NoThread
    \/ th[t].pc = "shrink_free" /\ ~FreeCanRun(th[t].spage)
    \/ th[t].pc = "fini_free" /\ ~FreeCanRun(th[t].page)

\* C11: no deadlock: in every reachable state in which some thread waits for
\* the registry mutex, some thread can take a step, also with a free
\* callback that itself takes the registry mutex.
C11_NoDeadlock ==
    (\E t \in Threads : LockWaiting(t)) => ENABLED Next

\* How often run r is linked in the buckets, and the threads that hold it
\* between its removal and the free callback
Occ(r) ==
    Cardinality({e \in Buckets \X (1 .. MaxRuns) :
                    e[2] <= Len(items[e[1]]) /\ items[e[1]][e[2]] = r})
Holders(r) ==
    {t \in AllThreads : \/ th[t].pc = "shrink_free" /\ th[t].spage = r
                        \/ th[t].pc = "fini_free" /\ th[t].page = r}

\* C12: a run has one holder: it is linked in one bucket once, or held by
\* one thread that removed it for the free callback, or with a caller, or
\* released; never two of these, under any interleaving of remove, shrink
\* and teardown.
C12_SingleOwner ==
    \A r \in Runs :
        /\ Occ(r) + Cardinality(Holders(r)) <= 1
        /\ owner[r] = "pool" <=> Occ(r) = 1
        /\ owner[r] = "hand" <=> Cardinality(Holders(r)) = 1

C12_Witness ==
    /\ \E r \in Runs : th[T1].pc = "fini_free" /\ th[T1].page = r
    /\ \E r \in Runs : th[T2].pc = "shrink_free" /\ th[T2].spage = r
    /\ \A r \in Runs : owner[r] = "hand"

\* The caching class of the buckets of an array
ClassOf(a) ==
    CASE a \in {"wc", "wc32", "dma_wc"} -> "wc"
      [] a \in {"uc", "uc32", "dma_uc"} -> "uc"
      [] OTHER -> "cached"

\* C13: every run linked in a bucket has the bucket's order recorded with
\* it and, where pages carry a caching attribute (x86 build, lowmem run),
\* the attribute of the bucket's caching class; and every page linked in a
\* list of the dynamic pool has the pool's order (a page of another order
\* is refused) and is in a list of its kind.
C13_RunsMatchBucket ==
    /\ \A b \in Buckets : \A i \in 1 .. Len(items[b]) :
          LET r == items[b][i] IN
          /\ ttm_pool_page_order(r) = order[b]
          /\ b[2] = order[b]
          /\ (x86 /\ rattr[r] # "high") => rattr[r] = ClassOf(b[1])
    /\ \A index \in PoolTypes : \A i \in 1 .. Len(ditems[index]) :
          LET page == ditems[index][i] IN
          /\ compound_order(page) = pool_order
          /\ PageHighMem(page) <=> index \in {POOL_HIGHPAGE, POOL_HIGHDEFERRED}

\* A drained run of the highest order a populate of MaxPages pages asks for
\* lies in a write-combined bucket with the write-combined attribute
C13_Witness ==
    /\ x86
    /\ CallerIdle
    /\ \E b \in Buckets :
          /\ ClassOf(b[1]) = "wc"
          /\ b[2] = OrderFirst(MaxPages)
          /\ items[b] # <<>>
          /\ rattr[items[b][1]] = "wc"

\* Times a bucket is linked in the registry
Links(b) == Cardinality({k \in 1 .. Len(registry) : registry[k] = b})

\* C14: a bucket is linked in the registry exactly once from its init to
\* the list_del of its fini and not at all otherwise; a bucket being drained
\* by its fini is no longer linked; and once ttm_pool_fini and
\* ttm_pool_mgr_fini have returned the registry is empty.
C14_LinkedOnce ==
    /\ \A b \in Buckets : Links(b) = IF b \in live THEN 1 ELSE 0
    /\ \A k \in 1 .. Len(registry) : registry[k] \in Buckets
    /\ \A t \in AllThreads :
          th[t].pc \in {"fini_drain", "fini_free"} => Links(th[t].pool) = 0
    /\ \A b \in live : ~InTeardown(b)
    /\ stage = "pool_down" =>
          \A k \in 1 .. Len(ttm_pool_init) : Links(ttm_pool_init[k]) = 0
    /\ stage = "down" => registry = <<>> /\ live = {}

\* ttm_pool_mgr_fini, after a pool with buckets of its own was finalised,
\* has unlinked a global bucket that held a run and is draining it
C14_Witness ==
    /\ stage = "mgr_fini"
    /\ ttm_pool_init # <<>>
    /\ th[Caller].pc = "fini_free"
    /\ th[Caller].pool[1] \in GlobalArrays
    /\ Links(th[Caller].pool) = 0
    /\ registry # <<>>

\* The calls so far are a populate, the drain of its pages without a trim,
\* and a populate of the same size and caching class
WarmCase ==
    /\ Len(hist) >= 3
    /\ hist[1].op = "alloc" /\ hist[1].res = 0
    /\ hist[2].op = "free" /\ hist[2].calls = 0
    /\ hist[3].op = "alloc"
    /\ hist[3].nr = hist[1].nr
    /\ hist[3].caching = hist[1].caching

IterationStarts ==
    /\ loop.pc = "loop"
    /\ loop.num_pages > 0
    /\ loop.tries # <<>> => loop.tries[Len(loop.tries)].out # "fail"

\* C16 (as stated): the order an iteration tries first is
\* min(MAX_ORDER - 1, floor_log2(pages left)), whatever order the earlier
\* iterations ended at.
C16_FirstOrderFromLeft ==
    IterationStarts => loop.order = Min(MAX_ORDER - 1, Fls(loop.num_pages))

\* C16 (amended): the first iteration tries min(MAX_ORDER - 1,
\* floor_log2(num_pages)) first; every later one tries min(the order at
\* which the iteration before it got its run, floor_log2(pages left)): the
\* order never rises again.
C16_FirstOrderFromLast ==
    IterationStarts =>
        loop.order = Min(IF loop.tries = <<>> THEN MAX_ORDER - 1
                         ELSE loop.tries[Len(loop.tries)].order,
                         Fls(loop.num_pages))

\* An iteration starts at a lower order than the pages left allow, after an
\* earlier one fell back
C16_Witness ==
    /\ IterationStarts
    /\ loop.tries # <<>>
    /\ loop.order < Min(MAX_ORDER - 1, Fls(loop.num_pages))

\* The orders of the tries that got nothing, and the number of those that
\* got a run
RECURSIVE FailedOrders(_)
FailedOrders(tries) ==
    IF tries = <<>> THEN <<>>
    ELSE (IF Head(tries).out = "fail" THEN <<Head(tries).order>> ELSE <<>>)
         \o FailedOrders(Tail(tries))
RunsGot(tries, o) ==
    Cardinality({i \in 1 .. Len(tries) :
                    tries[i].out = "run" /\ tries[i].order = o})

\* Empty buckets and a page allocator that gives order 0 only: every try
\* above order 0 gets nothing, every try at order 0 gets a run (from the
\* allocator, the buckets being empty), and neither the caching nor the
\* mapping fails
OnlyOrderZero ==
    /\ loop.pc = "done"
    /\ \A i \in 1 .. Len(loop.tries) :
          loop.tries[i].out = IF loop.tries[i].order > 0 THEN "fail"
                              ELSE "run"

\* C17: a try above order 0 that gets nothing is followed by a try one order
\* lower for the same number of pages; of the tries that get nothing only the
\* one at order 0 ends the populate, with -ENOMEM; and a populate of nine
\* pages from empty buckets with an allocator that gives order 0 only ends
\* well after tries that got nothing at orders 3, 2, 1, in this sequence,
\* and nine allocations of order 0.
C17_Fallback ==
    /\ \A i \in 1 .. Len(loop.tries) :
          loop.tries[i].out = "fail" =>
            IF loop.tries[i].order > 0
            THEN /\ i = Len(loop.tries) => /\ loop.pc = "loop"
                                           /\ loop.order = loop.tries[i].order - 1
                                           /\ loop.num_pages = loop.tries[i].left
                 /\ i < Len(loop.tries) =>
                       /\ loop.tries[i + 1].order = loop.tries[i].order - 1
                       /\ loop.tries[i + 1].left = loop.tries[i].left
            ELSE /\ i = Len(loop.tries)
                 /\ loop.pc = "failed"
                 /\ loop.res = -ENOMEM
    /\ (OnlyOrderZero /\ loop.nr = 9) =>
          /\ FailedOrders(loop.tries) = <<3, 2, 1>>
          /\ RunsGot(loop.tries, 0) = 9
          /\ Len(loop.tries) = 12
          /\ \A i \in 1 .. 3 : loop.tries[i].left = 9

\* The populate of nine pages has ended after three tries that got nothing
\* and nine order-0 allocations
C17_Witness ==
    /\ OnlyOrderZero
    /\ loop.nr = 9
    /\ Len(loop.tries) = 12

\* C18: every order asked for is at most MAX_ORDER - 1 and the run of that
\* order has no more pages than are left to get; the pages left never go
\* below 0 and the pages got never exceed the request.
C18_OrderFits ==
    /\ \A i \in 1 .. Len(loop.tries) :
          /\ loop.tries[i].order <= MAX_ORDER - 1
          /\ Pow2(loop.tries[i].order) <= loop.tries[i].left
    /\ (loop.pc = "loop" /\ loop.num_pages > 0) =>
          /\ loop.order <= MAX_ORDER - 1
          /\ Pow2(loop.order) <= loop.num_pages
    /\ loop.num_pages >= 0
    /\ loop.nr - loop.num_pages <= loop.nr

\* A request of more pages than twice the largest run was served with a run
\* of the highest order first and went on at the order the rest allows
C18_Witness ==
    /\ loop.pc = "loop"
    /\ Fls(loop.nr) > MAX_ORDER - 1
    /\ loop.num_pages > 0
    /\ loop.tries # <<>>
    /\ loop.tries[1].order = MAX_ORDER - 1
    /\ loop.tries[1].out # "fail"
    /\ loop.order < MAX_ORDER - 1

\* Where a page of the dynamic pool is linked
OnList(index, page) ==
    \E i \in 1 .. Len(ditems[index]) : ditems[index][i] = page
OnDirty(page) ==
    OnList(POOL_LOWDEFERRED, page) \/ OnList(POOL_HIGHDEFERRED, page)
OnClean(page) == OnList(POOL_LOWPAGE, page) \/ OnList(POOL_HIGHPAGE, page)

\* C19: with the pool's thread scheduled fairly, mappings that never fail
\* and nothing but frees besides, every page freed into the pool is
\* eventually on a clean list and zeroed, and the dirty lists are empty
\* again and again.
C19_DeferredZeroing ==
    /\ \A page \in DPages : OnDirty(page) ~> (OnClean(page) /\ dzero[page])
    /\ []<>(dcount[POOL_LOWDEFERRED] = 0 /\ dcount[POOL_HIGHDEFERRED] = 0)

\* A thread is inside dynamic_page_pool_clean: past its mutex_lock and not
\* yet past its mutex_unlock, the unlocked phase of
\* dynamic_page_pool_zero_and_add included
InCleanup(t) == dth[t].pc \in {"pass", "collect", "zero", "vmap", "add_clean"}

\* C20: at most one thread at a time is inside a cleanup pass of the pool
C20_OneCleanup == Cardinality({t \in Cleaners : InCleanup(t)}) <= 1

\* A free callback of a bucket is executing in thread t: the thread is
\* between the remove that gave it a run and the return of pool->free, in a
\* shrink call (direct, of a scan, or of the trim loop of an add) or in the
\* drain of a teardown
InCallback(t, b) ==
    \/ th[t].pc = "shrink_free" /\ th[t].spage # NoPage /\ th[t].spool = b
    \/ th[t].pc = "fini_free" /\ th[t].pool = b

\* C21: a thread that executes the free callback of a bucket does not hold
\* the lock of that bucket.
C21_CallbackUnlocked ==
    \A t \in AllThreads, b \in Buckets \cup {Phantom} :
        InCallback(t, b) => th[t].plock # b

\* A teardown is in a callback while a shrink call of the scan in the other
\* thread is in the callback of another bucket
C21_Witness ==
    /\ th[T1].pc = "fini_free"
    /\ th[T2].pc = "shrink_free"
    /\ th[T2].shrinkret = "scan_check"
    /\ th[T2].spage \in Runs
    /\ th[T2].spool # th[T1].pool

\* C22: while a free callback started by a shrink call is executing, the
\* thread that executes it does not hold the registry mutex.
C22_CallbackOutsideRegistryLock ==
    \A t \in AllThreads :
        th[t].pc = "shrink_free" /\ th[t].spage \in Runs => regLock # t

\* Base pages of the add and remove calls in progress: an add of the new
\* variant between its spin_unlock and its atomic_long_add (every other
\* counter update is made inside the section under pool->lock)
InFlightPages ==
    SumOver(AllThreads, [t \in AllThreads |->
                IF th[t].pc = "add_account" THEN RunPages(th[t].pool) ELSE 0])

Abs(x) == IF x < 0 THEN -x ELSE x

\* C26: the global counter differs from the pages linked in the buckets by
\* at most the base pages of the add and remove calls in progress.
C26_CounterDrift == Abs(total - PooledPages) <= InFlightPages

\* C25: the bucket a shrink call picked at the head of the registry stays
\* initialised and linked, at the head, until the call has moved it to the
\* tail; a teardown of it acts before the pick or after the move.
C25_PickedBucketStays ==
    \A t \in AllThreads :
        th[t].pc = "shrink_free" /\ th[t].spool # Phantom
        => /\ th[t].spool \in live
           /\ Links(th[t].spool) = 1
           /\ Head(registry) = th[t].spool
           /\ \A u \in AllThreads :
                 ~(th[u].pc \in {"fini_drain", "fini_free"}
                   /\ th[u].pool = th[t].spool)

\* A direct shrink call holds a run of the bucket it picked while the other
\* thread, which tears buckets down, is between two calls
C25_Witness ==
    /\ th[T2].pc = "shrink_free"
    /\ th[T2].shrinkret = "idle"
    /\ th[T2].spage \in Runs
    /\ th[T1].pc = "idle"
    /\ Cardinality(live) = 2

\* The run a populate step takes from a bucket: the head of the bucket of
\* the current order, when the step is an iteration and the bucket has one
RunInHand ==
    LET pt == ttm_pool_select_type(tt.caching, th[Caller].order) IN
    IF th[Caller].num_pages > 0 /\ pt # NoPool THEN FirstPage(pt) ELSE NoPage

\* A step of populate that returns an error
FailingStep ==
    /\ th[Caller].pc = "ttm_alloc"
    /\ th'[Caller].pc = "idle"
    /\ last'.op = "alloc" /\ last'.res # 0

\* C27: a failing populate never grows the pool and leaks nothing: no step
\* of a populate raises a bucket's count or links a run in a bucket, and the
\* step that returns the error leaves the run in hand and every run
\* deposited so far released to the page allocator, each exactly once (none
\* twice, none left with the caller or in tt->pages, none in a bucket).
C27_FailingPopulateReleases ==
    [][th[Caller].pc = "ttm_alloc" =>
          /\ \A b \in Buckets :
                /\ count'[b] <= count[b]
                /\ \A q \in Runs : InSeq(items'[b], q) => InSeq(items[b], q)
          /\ FailingStep =>
                /\ tt'.pages = <<>>
                /\ \A q \in Runs :
                      /\ owner'[q] \notin {"tt", "hand", "twice"}
                      /\ (owner[q] = "tt" \/ q = RunInHand) =>
                            /\ owner'[q] = "freed"
                            /\ \A b \in Buckets : ~InSeq(items'[b], q)]_vars

\* A populate of two pages has failed after two bucket hits of order 0, so
\* with at least one run deposited: every run went to the page allocator
C27_Witness ==
    /\ CallerIdle /\ last.op = "alloc" /\ last.res # 0
    /\ last.nr = 2 /\ last.hits = 2
    /\ \A q \in Runs : rorder[q] = 0
    /\ \A q \in Runs : owner[q] = "freed"
    /\ \A b \in Buckets : count[b] = 0

\* The thread is at a call of dynamic_page_pool_free_pages: in do_shrink
\* after the remove, in destroy's loop after the remove, or in
\* dynamic_page_pool_zero_and_add where a failed vmap releases the batch
AtRelease(t) == dth[t].pc \in {"dshrink_free", "destroy_free", "vmap"}

\* C24: in the dynamic pool a thread that is about to release a run to the
\* page allocator (on the shrink path, the mapping-failure path or the
\* destroy path) does not hold pool->mutex.
C24_ReleaseWithoutPoolLock ==
    \A t \in DThreads : AtRelease(t) => dmutex # t

\* The thread is inside dynamic_page_pool_zero_and_add, between its
\* mutex_unlock and its mutex_lock: at vmap, memset and vunmap, or at the
\* calls that follow them
InZeroAndAdd(t) == dth[t].pc \in {"vmap", "add_clean"}

\* The thread is in dynamic_page_pool_clean outside zero_and_add: in the
\* loops of dynamic_page_pool_clean and dynamic_page_pool_clean_pages, which
\* a return from zero_and_add goes back to
InCleanLoops(t) == dth[t].pc \in {"pass", "collect", "zero"}

\* C28: a cleaning thread inside the map/zero/unmap phase of
\* dynamic_page_pool_zero_and_add does not hold pool->mutex, and it holds
\* pool->mutex again whenever it is back in the caller's loops, after a
\* successful mapping and after a failed one alike.
C28_UnlockedWhileZeroing ==
    \A t \in Cleaners :
        /\ InZeroAndAdd(t) => dmutex # t
        /\ InCleanLoops(t) => dmutex = t

\* The pool's thread has returned from a zero_and_add whose vmap failed and
\* holds pool->mutex again, while the user is inside the unlocked phase of
\* its own zero_and_add
C28_Witness ==
    /\ InCleanLoops(Worker) /\ dth[Worker].addr = "null"
    /\ dmutex = Worker
    /\ dth[User].pc = "vmap"

\* The sub-list the preference order names: dirty lowmem first, then, where
\* highmem is allowed, dirty highmem, then clean lowmem, then clean highmem
PreferredIndex(high) ==
    IF dcount[POOL_LOWDEFERRED] # 0 THEN POOL_LOWDEFERRED
    ELSE IF high /\ dcount[POOL_HIGHDEFERRED] # 0 THEN POOL_HIGHDEFERRED
    ELSE IF dcount[POOL_LOWPAGE] # 0 THEN POOL_LOWPAGE
    ELSE IF high /\ dcount[POOL_HIGHPAGE] # 0 THEN POOL_HIGHPAGE
    ELSE "none"

\* C29: every step of the dynamic pool's shrinker that removes a run removes
\* the head of the sub-list the preference order names (dirty lowmem, then
\* dirty highmem where highmem is allowed, then clean lowmem, then clean
\* highmem), that is of the sub-list it tested as non-empty, and that sub-list
\* alone loses a run; without highmem allowed the run is not a highmem one.
C29_ShrinkPreference ==
    [][\A t \in DThreads :
          (dth[t].pc = "dshrink" /\ dth'[t].pc = "dshrink_free") =>
             LET index == PreferredIndex(dth[t].high) IN
             /\ index # "none"
             /\ dth'[t].page = Head(ditems[index])
             /\ dcount' = [dcount EXCEPT ![index] = @ - 1]
             /\ ditems' = [ditems EXCEPT ![index] = Tail(@)]
             /\ ~dth[t].high => ~PageHighMem(dth'[t].page)]_vars

\* C30: once dynamic_page_pool_destroy has returned (the pool is kfree'd)
\* the pool's cleaner thread takes no step that reads or writes the pool's
\* lists, counts, mutex or wait queue.
C30_WorkerStoppedByDestroy ==
    dlist.gone => ~dlist.uaf

\* A step in which thread t takes the registry mutex of the buckets
\* (shrinker_lock / pool_list_lock of drm_page_pool)
TakesRegistry(t) ==
    \/ ShrinkBegin(t)
    \/ DumpBegin(t)
    \/ \E b \in EnvBuckets : drm_page_pool_init(t, b)
    \/ \E b \in EnvBuckets : FiniUnlink(t, b)

\* A step in which thread t takes pool_list_lock of the dynamic pool
TakesPoolList(t) ==
    \/ \E nr \in 1 .. MaxScan, high \in BOOLEAN : DynShrinkBegin(t, nr, high)
    \/ DestroyUnlink(t)

\* A thread that waits for a registry mutex, or is where it may come to take
\* one: at the mutex_lock of a shrink call; inside vmap, whose allocation
\* may enter the shrinker
AtRegistryLock(t) ==
    IF t \in DThreads THEN dth[t].pc = "vmap" ELSE th[t].pc = "shrink"

\* The lower locks thread t holds: a bucket's spinlock, the dynamic pool's
\* mutex
HoldsLower(t) ==
    IF t \in DThreads THEN dmutex = t ELSE th[t].plock # NoPool

\* C23: the lock order registry -> pool -> bucket is kept: no thread that
\* holds a pool mutex or a bucket spinlock takes a registry mutex or is at a
\* point where it tries to (the trim loop of add, the shrink, the scan, the
\* teardown and the dump of the buckets; the shrink, clean and destroy paths
\* of the dynamic pool).  No code takes a pool mutex and a bucket spinlock
\* together.
C23_LockOrder ==
    /\ [](\A t \in AllThreads \cup DThreads :
             AtRegistryLock(t) => ~HoldsLower(t))
    /\ [][/\ \A t \in AllThreads : TakesRegistry(t) => th[t].plock = NoPool
          /\ \A t \in DThreads : TakesPoolList(t) => dmutex # t]_vars

\* The pool's thread has entered the shrinker from inside vmap and holds
\* pool_list_lock, without pool->mutex, while the destroy waits
C23_Witness ==
    /\ dlist.lock = Worker /\ dth[Worker].pc = "dshrink"
    /\ dth[Worker].back = "vmap"
    /\ dmutex # Worker
    /\ dth[User].pc = "idle" /\ dlist.linked
    /\ dcount[POOL_LOWDEFERRED] > 0

C32_FatalSignalStops ==
    [][FatalPending =>
          /\ (/\ th[Caller].pc = "ttm_alloc"
              /\ th[Caller].num_pages > 0
              /\ RunInHand = NoPage) =>
                 /\ owner' = [q \in Runs |-> IF owner[q] = "tt" THEN "freed"
                                             ELSE owner[q]]
                 /\ th'[Caller].pc = "idle"
                 /\ ~tt'.populated /\ tt'.pages = <<>>
          /\ (dth[User].pc = "refetch" /\ FetchIndex = "none") =>
                 /\ dst' = dst
                 /\ dth'[User].pc = "idle"]_vars
\* C33: inputs that violate a precondition change no pool state.  A page of
\* another order is never linked into a sub-list of the dynamic pool; the call
\* that warns (dynamic_page_pool_free of such a page, dynamic_page_pool_alloc
\* of a NULL pool) leaves the four sub-lists, their counts, the pages, the
\* pool's mutex and the cleaner as they were, and takes nothing from the
\* allocator; drm_page_pool_fetch of a NULL pool returns NULL and leaves every
\* bucket, the counter and every run as they were.
WarnedStep == ~dth[User].warned /\ dth'[User].warned

NullFetchStep == last.op # "fetch" /\ last'.op = "fetch"

C33_RefusedInputsChangeNothing ==
    /\ [](\A i \in PoolTypes : ~InSeq(ditems[i], Foreign))
    /\ [][WarnedStep =>
             /\ UNCHANGED <<dcount, ditems, dst, dzero, dmutex, dlist>>
             /\ dth'[Worker] = dth[Worker]]_vars
    /\ [][NullFetchStep =>
             /\ last'.page = NoPage
             /\ UNCHANGED <<items, count, total, owner, registry, live>>]_vars

\* A call was refused while the pool held clean and dirty pages
C33_Witness ==
    /\ dth[User].warned
    /\ dcount[POOL_LOWPAGE] > 0
    /\ dcount[POOL_HIGHDEFERRED] > 0

\* C34: when drm_page_pool_add pushes the total above page_pool_size, the run
\* just added stays in its bucket while the trim runs and after it, for every
\* position of the registry (the run released is one pooled earlier).
InAddTrim ==
    \/ th[Caller].pc \in {"add_account", "add_trim"}
    \/ th[Caller].pc \in {"shrink", "shrink_free"}
       /\ th[Caller].shrinkret = "add_trim"

C34_HotRunStays ==
    InAddTrim => InSeq(items[th[Caller].pool], th[Caller].page)

\* C35: under every interleaving of concurrent drm_page_pool_add and
\* drm_page_pool_remove the global counter is never negative, so that
\* drm_page_pool_get_total and the shrinker count (which read it as an
\* unsigned long) never report a wrapped value.  Stated for the executions
\* without the undefined read of an empty registry.
C35_CounterNeverNegative == ~ub => total >= 0

\* C36: what dynamic_page_pool_do_shrink(pool, gfp, n > 0) counts into its
\* return value is what it unlinked and released: every run it hands to
\* dynamic_page_pool_free_pages is a page of the pool, and every pass that
\* adds 1 << order to the value lowers the four counts together by one run.
PooledRuns ==
    dcount[POOL_LOWPAGE] + dcount[POOL_HIGHPAGE]
        + dcount[POOL_LOWDEFERRED] + dcount[POOL_HIGHDEFERRED]

ShrinkTakeStep ==
    dth[Kswapd].pc = "dshrink" /\ dth'[Kswapd].pc = "dshrink_free"

C36_ShrinkCountsReleasedRuns ==
    /\ [](dth[Kswapd].pc = "dshrink_free" => dth[Kswapd].page \in DPages)
    /\ [][ShrinkTakeStep => PooledRuns' = PooledRuns - 1]_vars

\* C37: page conservation in the dynamic pool.  The stored count of each
\* sub-list is its length, and every page is in exactly one place: linked
\* once in one sub-list, or in the batch (or the hand) of one thread that
\* removed it, or with the caller, or with the page allocator.
TimesLinked(p) ==
    Cardinality({ik \in PoolTypes \X (1 .. MaxDPages) :
                    /\ ik[2] <= Len(ditems[ik[1]])
                    /\ ditems[ik[1]][ik[2]] = p})

TimesHeld(p) ==
    Cardinality({t \in DThreads : InSeq(dth[t].pages, p) \/ dth[t].page = p})

C37_PageConservation ==
    /\ \A i \in PoolTypes : dcount[i] = Len(ditems[i])
    /\ \A p \in DPages :
          /\ dst[p] \in {"pool", "held", "caller", "free"}
          /\ TimesLinked(p) = (IF dst[p] = "pool" THEN 1 ELSE 0)
          /\ TimesHeld(p) = (IF dst[p] = "held" THEN 1 ELSE 0)

\* C38: dynamic_page_pool_alloc never hands out a pooled page that has not
\* been zeroed since it was last freed: every page linked in a clean sub-list
\* has been zeroed since (the cleaner links it there only after the memset),
\* and a page that goes from the pool to the caller is the head of a clean
\* sub-list and zeroed.
CleanLinked(p) ==
    InSeq(ditems[POOL_LOWPAGE], p) \/ InSeq(ditems[POOL_HIGHPAGE], p)

HandedOut(p) == dst[p] = "pool" /\ dst'[p] = "caller"

C39_FailedPopulateUnmaps ==
    \A r \in Runs : owner[r] = "freed" => r \notin dma_mapped

\* C40: the reclaim loops terminate.  In every fair behaviour in which the
\* concurrent operations (adds, removes, bucket initialisations and
\* teardowns) come to an end, a thread that is inside drm_page_pool_add (its
\* trim loop), inside the shrinker scan or inside a shrink eventually
\* returns, whatever the counter was in between.
AddRemoveStep ==
    \E r \in Runs : \/ (owner[r] = "caller" /\ owner'[r] = "pool")
                     \/ (owner[r] = "pool" /\ owner'[r] = "caller")

InReclaimLoop(t) ==
    th[t].pc \in {"add_account", "add_trim", "shrink", "shrink_free",
                  "scan_check"}

C40_ReclaimLoopsTerminate ==
    (<>[][~AddRemoveStep /\ live' = live]_vars)
        => \A t \in Threads : InReclaimLoop(t) ~> th[t].pc = "idle"

====
